---- MODULE Spec2Model ----
(***************************************************************************)
(* A model of create-diff-object.c, the ELF object differencing engine of  *)
(* xsplice-build.  main() is a linear pipeline of passes over an in-memory *)
(* object model (sections, symbols, relocations); every pass is one action *)
(* and pc is main()'s position.  Names are C strings: sequences of         *)
(* one-character strings, read with At() which yields NUL past the end.    *)
(***************************************************************************)
EXTENDS Integers, Sequences, FiniteSets, TLC

VARIABLES pc,      \* position of main() (or of the driver of a single function)
          k,       \* the object models: sections, symbols, the lists that own them
          rc,      \* exit status of the process, -1 while it runs
          written, \* number of calls of xsplice_write_output_elf
          hist,    \* what the run drew from its environment and decided
          ms       \* arguments and result of xsplice_mangled_strcmp

vars == <<pc, k, rc, written, hist, ms>>

-----------------------------------------------------------------------------
(* C strings *)

NUL == ""
NULLSTR == <<"NULL">>
Digits == {"0", "1", "2", "3", "4", "5", "6", "7", "8", "9"}

isdigit(c) == c \in Digits

At(s, i) == IF i >= 1 /\ i <= Len(s) THEN s[i] ELSE NUL

\* !strncmp(s, p, strlen(p))
HasPrefix(s, p) == Len(s) >= Len(p) /\ SubSeq(s, 1, Len(p)) = p

\* strstr(s, p) != NULL
Contains(s, p) == \E i \in 1..(Len(s) - Len(p) + 1) : SubSeq(s, i, i + Len(p) - 1) = p

\* strchr(s, c) != NULL
HasChar(s, c) == \E i \in 1..Len(s) : s[i] = c

RECURSIVE SkipDigits(_, _)
\* while (isdigit(*++s)) ;   entered with s[i] a digit: the first non-digit after i
SkipDigits(s, i) == IF isdigit(At(s, i)) THEN SkipDigits(s, i + 1) ELSE i

RECURSIVE mangled_from(_, _, _, _)
mangled_from(s1, s2, i, j) ==
    IF At(s1, i) # At(s2, j) THEN 1
    ELSE IF At(s1, i) = NUL THEN 0
    ELSE IF At(s1, i) = "." /\ isdigit(At(s1, i + 1))
         THEN IF ~isdigit(At(s2, j + 1)) THEN 1
              ELSE mangled_from(s1, s2, SkipDigits(s1, i + 1), SkipDigits(s2, j + 1))
         ELSE mangled_from(s1, s2, i + 1, j + 1)

\* a plausible slip: the digits after the '.' are compared like any other character
mangled_strcmp_literal(s1, s2) == IF s1 = s2 THEN 0 ELSE 1

xsplice_mangled_strcmp(s1, s2) == mangled_from(s1, s2, 1, 1)
-----------------------------------------------------------------------------
(* The names the engine tests for, and the names of the modelled objects *)

s_empty == <<>>
s_file == <<"a", ".", "c">>
s_foo == <<"f", "o", "o">>
s_bar == <<"b", "a", "r">>
s_baz == <<"b", "a", "z">>
s_hk == <<"h", "k">>
s_hk2 == <<"h", "k", "2">>
s_x == <<"x">>
s_c7 == <<"c", ".", "7">>
s_c9 == <<"c", ".", "9">>
p_rela == <<".", "r", "e", "l", "a">>
p_text == <<".", "t", "e", "x", "t", ".">>
p_data == <<".", "d", "a", "t", "a", ".">>
p_rodata == <<".", "r", "o", "d", "a", "t", "a", ".">>
p_bss == <<".", "b", "s", "s", ".">>
p_debug == <<".", "d", "e", "b", "u", "g", "_">>
p_str1 == <<".", "r", "o", "d", "a", "t", "a", ".", "s", "t", "r", "1", ".">>
p_dotdata == <<".", "d", "a", "t", "a">>
p_dotbss == <<".", "b", "s", "s">>
p_LC == <<".", "L", "C">>
s_isra == <<".", "i", "s", "r", "a", ".">>
s_constprop == <<".", "c", "o", "n", "s", "t", "p", "r", "o", "p", ".">>
s_part == <<".", "p", "a", "r", "t", ".">>
s_key == <<"_", "_", "k", "e", "y", ".">>
s_warned == <<"_", "_", "w", "a", "r", "n", "e", "d", ".">>
s_descriptor == <<"d", "e", "s", "c", "r", "i", "p", "t", "o", "r", ".">>
s_func == <<"_", "_", "f", "u", "n", "c", "_", "_", ".">>
s_rs == <<"_", "r", "s", ".">>
s_verbose == <<"_", "_", "v", "e", "r", "b", "o", "s", "e">>
s_symtab == <<".", "s", "y", "m", "t", "a", "b">>
s_strtab == <<".", "s", "t", "r", "t", "a", "b">>
s_shstrtab == <<".", "s", "h", "s", "t", "r", "t", "a", "b">>
s_str1_1 == <<".", "r", "o", "d", "a", "t", "a", ".", "s", "t", "r", "1", ".", "1">>
s_debug_info == <<".", "d", "e", "b", "u", "g", "_", "i", "n", "f", "o">>
s_data_unlikely == <<".", "d", "a", "t", "a", ".", "u", "n", "l", "i", "k", "e", "l", "y">>
s_bug_frames_0 == <<".", "b", "u", "g", "_", "f", "r", "a", "m", "e", "s", ".", "0">>
s_bug_frames_1 == <<".", "b", "u", "g", "_", "f", "r", "a", "m", "e", "s", ".", "1">>
s_bug_frames_2 == <<".", "b", "u", "g", "_", "f", "r", "a", "m", "e", "s", ".", "2">>
s_bug_frames_3 == <<".", "b", "u", "g", "_", "f", "r", "a", "m", "e", "s", ".", "3">>
s_fixup == <<".", "f", "i", "x", "u", "p">>
s_ex_table == <<".", "e", "x", "_", "t", "a", "b", "l", "e">>
s_rela_ex_table == <<".", "r", "e", "l", "a", ".", "e", "x", "_", "t", "a", "b", "l", "e">>
s_altinstructions == <<".", "a", "l", "t", "i", "n", "s", "t", "r", "u", "c", "t", "i", "o", "n", "s">>
s_altinstr_replacement == <<".", "a", "l", "t", "i", "n", "s", "t", "r", "_", "r", "e", "p", "l", "a", "c", "e", "m", "e", "n", "t">>
s_hooks_load == <<".", "x", "s", "p", "l", "i", "c", "e", ".", "h", "o", "o", "k", "s", ".", "l", "o", "a", "d">>
s_hooks_unload == <<".", "x", "s", "p", "l", "i", "c", "e", ".", "h", "o", "o", "k", "s", ".", "u", "n", "l", "o", "a", "d">>
s_rela_hooks_load == <<".", "r", "e", "l", "a", ".", "x", "s", "p", "l", "i", "c", "e", ".", "h", "o", "o", "k", "s", ".", "l", "o", "a", "d">>
s_rela_hooks_unload == <<".", "r", "e", "l", "a", ".", "x", "s", "p", "l", "i", "c", "e", ".", "h", "o", "o", "k", "s", ".", "u", "n", "l", "o", "a", "d">>
s_load_data == <<"x", "s", "p", "l", "i", "c", "e", "_", "l", "o", "a", "d", "_", "d", "a", "t", "a">>
s_unload_data == <<"x", "s", "p", "l", "i", "c", "e", "_", "u", "n", "l", "o", "a", "d", "_", "d", "a", "t", "a">>
s_ignore_functions == <<".", "x", "s", "p", "l", "i", "c", "e", ".", "i", "g", "n", "o", "r", "e", ".", "f", "u", "n", "c", "t", "i", "o", "n", "s">>
s_ignore_sections == <<".", "x", "s", "p", "l", "i", "c", "e", ".", "i", "g", "n", "o", "r", "e", ".", "s", "e", "c", "t", "i", "o", "n", "s">>
s_xsplice_funcs == <<".", "x", "s", "p", "l", "i", "c", "e", ".", "f", "u", "n", "c", "s">>
s_xsplice_strings == <<".", "x", "s", "p", "l", "i", "c", "e", ".", "s", "t", "r", "i", "n", "g", "s">>
s_hash == <<"#">>
s_group == <<".", "g", "r", "o", "u", "p">>
s_func1 == <<"_", "_", "f", "u", "n", "c", "_", "_", ".", "1">>
s_g_isra_1 == <<"g", ".", "i", "s", "r", "a", ".", "1">>
s_g_isra_2 == <<"g", ".", "i", "s", "r", "a", ".", "2">>

Cat(a, b) == a \o b

-----------------------------------------------------------------------------
(* ELF and program constants *)

NULL == 0
SHN_UNDEF == 0
SHN_ABS == 65521
PATCH_INSN_SIZE == 5
RelaEntSize == 24
SizeofPatchFunc == 64
OffsetofName == 24

-----------------------------------------------------------------------------
(* struct section, struct symbol, struct rela as the loader leaves them *)

NewSec(name, type, flags, data, size, align, entsize) ==
    [name |-> name, type |-> type, flags |-> flags, data |-> data, size |-> size,
     align |-> align, entsize |-> entsize,
     base |-> NULL, rela |-> NULL, secsym |-> NULL, sym |-> NULL, relas |-> <<>>,
     grouped |-> FALSE, ignore |-> FALSE, include |-> FALSE, status |-> "NEW",
     twin |-> NULL, index |-> 0, link |-> 0, info |-> 0]

NewSym(name, type, bind, size, value, shndx) ==
    [name |-> name, type |-> type, bind |-> bind, size |-> size, value |-> value,
     shndx |-> shndx, sec |-> NULL, include |-> FALSE, status |-> "NEW",
     twin |-> NULL, index |-> 0]

NewRela(offset, type, addend, sym, string, addoff) ==
    [offset |-> offset, type |-> type, addend |-> addend, sym |-> sym,
     string |-> string, addoff |-> addoff]

\* descriptions of an object file, as the compiler writes it
SecD(name, type, flags, data, align, relas) ==
    [name |-> name, type |-> type, flags |-> flags, data |-> data, size |-> Len(data),
     align |-> align, entsize |-> 0, hasrela |-> relas # <<>>, relas |-> relas]

RelD(offset, type, addend, symname, addoff) ==
    [offset |-> offset, type |-> type, addend |-> addend, symname |-> symname,
     string |-> NULLSTR, addoff |-> addoff]

SymD(name, type, bind, size, secname) ==
    [name |-> name, type |-> type, bind |-> bind, size |-> size, value |-> 0,
     hassec |-> TRUE, secname |-> secname, shndx |-> 1]

SecSymD(secname) == SymD(secname, "SECTION", "LOCAL", 0, secname)

-----------------------------------------------------------------------------
(* Helpers of the object model *)

is_rela_section(sec) == sec.type = "RELA"

is_text_section(sec) == sec.type = "PROGBITS" /\ "EXEC" \in sec.flags

is_debug_section(secs, s) ==
    LET name == IF is_rela_section(secs[s]) THEN secs[secs[s].base].name ELSE secs[s].name
    IN HasPrefix(name, p_debug)

is_local_sym(sym) == sym.bind = "LOCAL"

\* the first element of list whose name is name, or NULL
RECURSIVE FindByName(_, _, _)
FindByName(tab, list, name) ==
    IF list = <<>> THEN NULL
    ELSE IF tab[Head(list)].name = name THEN Head(list)
    ELSE FindByName(tab, Tail(list), name)

find_section_by_name(kk, list, name) == FindByName(kk.secs, list, name)

find_symbol_by_name(kk, list, name) == FindByName(kk.syms, list, name)

is_bundleable(sym, secname) ==
    \/ sym.type = "FUNC" /\ secname = Cat(p_text, sym.name)
    \/ sym.type = "OBJECT" /\ secname \in {Cat(p_data, sym.name), Cat(p_rodata, sym.name),
                                            Cat(p_bss, sym.name)}

\* index of the first entry of seq with the given name, 0 if none
RECURSIVE IndexOfName(_, _, _)
IndexOfName(seq, name, i) ==
    IF i > Len(seq) THEN 0
    ELSE IF seq[i].name = name THEN i
    ELSE IndexOfName(seq, name, i + 1)

RECURSIVE FlatSecs(_)
FlatSecs(ds) ==
    IF ds = <<>> THEN <<>>
    ELSE LET d == Head(ds)
         IN (IF d.hasrela THEN <<[d |-> d, isrela |-> FALSE], [d |-> d, isrela |-> TRUE]>>
             ELSE <<[d |-> d, isrela |-> FALSE]>>) \o FlatSecs(Tail(ds))

\* xsplice_elf_open: the section list, the symbol list and their links
Load(desc, off) ==
    LET flat == FlatSecs(desc.secs)
        names == [i \in 1..Len(flat) |->
                    [name |-> IF flat[i].isrela THEN Cat(p_rela, flat[i].d.name)
                              ELSE flat[i].d.name]]
        sds == <<[name |-> s_empty, type |-> "NOTYPE", bind |-> "LOCAL", size |-> 0,
                  value |-> 0, hassec |-> FALSE, secname |-> s_empty,
                  shndx |-> SHN_UNDEF]>> \o desc.syms
        secid(nm) == LET i == IndexOfName(names, nm, 1) IN IF i = 0 THEN NULL ELSE off + i
        symid(nm) == LET i == IndexOfName(sds, nm, 1) IN IF i = 0 THEN NULL ELSE off + i
        secsymOf(nm) ==
            LET c == {i \in 1..Len(sds) : sds[i].type = "SECTION" /\ sds[i].hassec
                                           /\ sds[i].secname = nm}
            IN IF c = {} THEN NULL ELSE off + (CHOOSE i \in c : \A j \in c : i <= j)
        bundledOf(nm) ==
            LET c == {i \in 1..Len(sds) : sds[i].hassec /\ sds[i].secname = nm
                                           /\ is_bundleable(sds[i], nm)}
            IN IF c = {} THEN NULL ELSE off + (CHOOSE i \in c : \A j \in c : i <= j)
        mkrela(r) == NewRela(r.offset, r.type, r.addend, symid(r.symname), r.string, r.addoff)
        mksec(i) ==
            LET d == flat[i].d
            IN IF flat[i].isrela
               THEN [NewSec(names[i].name, "RELA", {}, <<>>, RelaEntSize * Len(d.relas),
                            8, RelaEntSize)
                       EXCEPT !.base = off + i - 1, !.index = i,
                              !.relas = [j \in 1..Len(d.relas) |-> mkrela(d.relas[j])]]
               ELSE [NewSec(d.name, d.type, d.flags, d.data, d.size, d.align, d.entsize)
                       EXCEPT !.rela = IF d.hasrela THEN off + i + 1 ELSE NULL, !.index = i,
                              !.secsym = secsymOf(d.name),
                              !.sym = bundledOf(d.name)]
        mksym(i) ==
            LET d == sds[i]
            IN [NewSym(d.name, d.type, d.bind, d.size, d.value, d.shndx)
                  EXCEPT !.sec = IF d.hassec THEN secid(d.secname) ELSE NULL, !.index = i - 1]
    IN [secs |-> [s \in {off + i : i \in 1..Len(flat)} |-> mksec(s - off)],
        syms |-> [y \in {off + i : i \in 1..Len(sds)} |-> mksym(y - off)],
        seclist |-> [i \in 1..Len(flat) |-> off + i],
        symlist |-> [i \in 1..Len(sds) |-> off + i]]

-----------------------------------------------------------------------------
(* Fatal ends: ERROR() exits with 1, DIFF_FATAL() with 2; a NULL dereference   *)
(* kills the process with SIGSEGV (status 139)                                 *)

Error(kk) == IF kk.err = 0 THEN [kk EXCEPT !.err = 1] ELSE kk
DiffFatal(kk) == IF kk.err = 0 THEN [kk EXCEPT !.err = 2] ELSE kk
Crash(kk) == IF kk.err = 0 THEN [kk EXCEPT !.err = 139] ELSE kk

\* the elements of a sequence of ids, as a set
Range(seq) == {seq[i] : i \in 1..Len(seq)}


-----------------------------------------------------------------------------
(* xsplice_mark_grouped_sections *)

RECURSIVE MarkGroupWords(_, _, _)
MarkGroupWords(kk, list, words) ==
    IF words = <<>> \/ kk.err # 0 THEN kk
    ELSE LET c == {s \in Range(list) : kk.secs[s].index = Head(words)}
         IN IF c = {} THEN Error(kk)
            ELSE MarkGroupWords([kk EXCEPT !.secs[CHOOSE s \in c : TRUE].grouped = TRUE],
                                list, Tail(words))

RECURSIVE MarkGrouped(_, _, _)
MarkGrouped(kk, list, rest) ==
    IF rest = <<>> \/ kk.err # 0 THEN kk
    ELSE LET g == Head(rest)
         IN IF kk.secs[g].type # "GROUP" THEN MarkGrouped(kk, list, Tail(rest))
            ELSE MarkGrouped(MarkGroupWords(kk, list, Tail(kk.secs[g].data)), list, Tail(rest))

xsplice_mark_grouped_sections(kk, list) == MarkGrouped(kk, list, list)

-----------------------------------------------------------------------------
(* xsplice_replace_sections_syms *)

\* the first symbol of the target's section whose range holds addend + add_off
RECURSIVE RangeSym(_, _, _, _)
RangeSym(kk, symlist, tsec, eff) ==
    IF symlist = <<>> THEN NULL
    ELSE LET y == kk.syms[Head(symlist)]
         IN IF y.type = "SECTION" \/ y.sec # tsec THEN RangeSym(kk, Tail(symlist), tsec, eff)
            ELSE IF eff < y.value \/ eff >= y.value + y.size
                 THEN RangeSym(kk, Tail(symlist), tsec, eff)
                 ELSE Head(symlist)

\* a plausible slip: the target is replaced and the addend is kept
ReplaceRela_keepaddend(kk, symlist, r) ==
    LET t == kk.syms[r.sym]
    IN IF t.type # "SECTION" THEN r
       ELSE IF t.sec # NULL /\ kk.secs[t.sec].sym # NULL
            THEN [r EXCEPT !.sym = kk.secs[t.sec].sym]
       ELSE IF r.type \notin {"PC32", "R64", "R32S"} THEN r
       ELSE LET add_off == IF r.type = "PC32" THEN r.addoff ELSE 0
                y == RangeSym(kk, symlist, t.sec, r.addend + add_off)
            IN IF y = NULL THEN r ELSE [r EXCEPT !.sym = y]

ReplaceRela(kk, symlist, r) ==
    LET t == kk.syms[r.sym]
    IN IF t.type # "SECTION" THEN r
       ELSE IF t.sec # NULL /\ kk.secs[t.sec].sym # NULL
            THEN [r EXCEPT !.sym = kk.secs[t.sec].sym]
       ELSE IF r.type \notin {"PC32", "R64", "R32S"} THEN r
       ELSE LET add_off == IF r.type = "PC32" THEN r.addoff ELSE 0
                y == RangeSym(kk, symlist, t.sec, r.addend + add_off)
            IN IF y = NULL THEN r
               ELSE [r EXCEPT !.sym = y, !.addend = r.addend - kk.syms[y].value]

xsplice_replace_sections_syms(kk, seclist, symlist) ==
    [kk EXCEPT !.secs =
        [s \in DOMAIN kk.secs |->
            IF s \in Range(seclist) /\ is_rela_section(kk.secs[s])
               /\ ~is_debug_section(kk.secs, s)
            THEN [kk.secs[s] EXCEPT !.relas =
                    [j \in 1..Len(kk.secs[s].relas) |->
                        ReplaceRela(kk, symlist, kk.secs[s].relas[j])]]
            ELSE kk.secs[s]]]

-----------------------------------------------------------------------------
(* xsplice_rename_mangled_functions *)

\* the first base symbol equal to name under mangled equality, or NULL
RECURSIVE FirstMangled(_, _, _)
FirstMangled(kk, list, name) ==
    IF list = <<>> THEN NULL
    ELSE IF xsplice_mangled_strcmp(kk.syms[Head(list)].name, name) = 0 THEN Head(list)
    ELSE FirstMangled(kk, Tail(list), name)

RenameOne(kk, y) ==
    LET sym == kk.syms[y]
        b == FirstMangled(kk, kk.bsyms, sym.name)
    IN IF sym.type # "FUNC" THEN kk
       ELSE IF ~Contains(sym.name, s_isra) /\ ~Contains(sym.name, s_constprop)
               /\ ~Contains(sym.name, s_part) THEN kk
       ELSE IF b = NULL THEN kk
       ELSE IF sym.name = kk.syms[b].name THEN kk
       ELSE LET bsym == kk.syms[b]
                k1 == [kk EXCEPT !.syms[y].name = bsym.name]
            IN IF sym.sec = NULL THEN Crash(k1)
               ELSE IF kk.secs[sym.sec].sym # y THEN k1
               ELSE IF bsym.sec = NULL THEN Crash(k1)
               ELSE LET sec == sym.sec
                        bsec == kk.secs[bsym.sec]
                        k2 == [k1 EXCEPT !.secs[sec].name = bsec.name]
                    IN IF kk.secs[sec].rela # NULL /\ bsec.rela = NULL THEN Crash(k2)
                       ELSE LET k3 == IF kk.secs[sec].rela # NULL
                                      THEN [k2 EXCEPT !.secs[kk.secs[sec].rela].name =
                                                          kk.secs[bsec.rela].name]
                                      ELSE k2
                                ro == find_section_by_name(k3, k3.psecs, Cat(p_rodata, sym.name))
                                bro == find_section_by_name(k3, k3.bsecs, Cat(p_rodata, bsym.name))
                            IN IF ro = NULL \/ bro = NULL THEN k3
                               ELSE IF k3.secs[ro].secsym = NULL THEN Crash(k3)
                               ELSE LET k4 == [k3 EXCEPT
                                                 !.secs[ro].name = k3.secs[bro].name,
                                                 !.syms[k3.secs[ro].secsym].name = k3.secs[bro].name]
                                    IN IF k3.secs[ro].rela = NULL THEN k4
                                       ELSE IF k3.secs[bro].rela = NULL THEN Crash(k4)
                                       ELSE [k4 EXCEPT !.secs[k3.secs[ro].rela].name =
                                                           k3.secs[k3.secs[bro].rela].name]

RECURSIVE RenameMangled(_, _)
RenameMangled(kk, rest) ==
    IF rest = <<>> \/ kk.err # 0 THEN kk
    ELSE RenameMangled(RenameOne(kk, Head(rest)), Tail(rest))

xsplice_rename_mangled_functions(kk) == RenameMangled(kk, kk.psyms)

-----------------------------------------------------------------------------
(* is_special_static, is_constant_label *)

SpecialPrefixes == {s_key, s_warned, s_descriptor, s_func, s_rs}

SpecialName(sym) ==
    sym.type = "OBJECT" /\ sym.bind = "LOCAL"
    /\ \E p \in SpecialPrefixes : HasPrefix(sym.name, p)

is_special_static(kk, y) ==
    IF y = NULL THEN FALSE
    ELSE LET sym == kk.syms[y]
         IN IF sym.type = "SECTION"
            THEN IF sym.name = s_verbose THEN TRUE
                 ELSE IF kk.secs[sym.sec].sym = NULL THEN FALSE
                 ELSE SpecialName(kk.syms[kk.secs[sym.sec].sym])
            ELSE SpecialName(sym)

is_constant_label(sym) ==
    /\ sym.bind = "LOCAL"
    /\ HasPrefix(sym.name, p_LC)
    /\ Len(sym.name) >= 4
    /\ \A i \in 4..Len(sym.name) : isdigit(sym.name[i])

-----------------------------------------------------------------------------
(* xsplice_correlate_sections, xsplice_correlate_symbols *)

SecMatch(kk, s1, s2) ==
    LET sec1 == kk.secs[s1]
        sec2 == kk.secs[s2]
    IN /\ sec1.name = sec2.name
       /\ ~is_special_static(kk, IF is_rela_section(sec1) THEN kk.secs[sec1.base].secsym
                                 ELSE sec1.secsym)
       /\ (sec1.type = "GROUP" => sec1.data = sec2.data)

RECURSIVE FirstSecMatch(_, _, _)
FirstSecMatch(kk, s1, list2) ==
    IF list2 = <<>> THEN NULL
    ELSE IF SecMatch(kk, s1, Head(list2)) THEN Head(list2)
    ELSE FirstSecMatch(kk, s1, Tail(list2))

RECURSIVE CorrelateSecs(_, _, _)
CorrelateSecs(kk, list1, list2) ==
    IF list1 = <<>> THEN kk
    ELSE LET s1 == Head(list1)
             s2 == FirstSecMatch(kk, s1, list2)
         IN IF s2 = NULL THEN CorrelateSecs(kk, Tail(list1), list2)
            ELSE CorrelateSecs([kk EXCEPT !.secs[s1].twin = s2, !.secs[s1].status = "SAME",
                                          !.secs[s2].twin = s1, !.secs[s2].status = "SAME"],
                               Tail(list1), list2)

xsplice_correlate_sections(kk, seclist1, seclist2) == CorrelateSecs(kk, seclist1, seclist2)

SymMatch(kk, y1, y2) ==
    LET sym1 == kk.syms[y1]
        sym2 == kk.syms[y2]
    IN /\ sym1.name = sym2.name
       /\ sym1.type = sym2.type
       /\ ~is_special_static(kk, y1)
       /\ ~is_constant_label(sym1)
       /\ ~(sym1.sec # NULL /\ kk.secs[sym1.sec].type = "GROUP"
            /\ kk.secs[sym1.sec].twin # sym2.sec)

RECURSIVE FirstSymMatch(_, _, _)
FirstSymMatch(kk, y1, list2) ==
    IF list2 = <<>> THEN NULL
    ELSE IF SymMatch(kk, y1, Head(list2)) THEN Head(list2)
    ELSE FirstSymMatch(kk, y1, Tail(list2))

RECURSIVE CorrelateSyms(_, _, _)
CorrelateSyms(kk, list1, list2) ==
    IF list1 = <<>> THEN kk
    ELSE LET y1 == Head(list1)
             y2 == FirstSymMatch(kk, y1, list2)
         IN IF y2 = NULL THEN CorrelateSyms(kk, Tail(list1), list2)
            ELSE CorrelateSyms([kk EXCEPT !.syms[y1].twin = y2, !.syms[y1].status = "SAME",
                                          !.syms[y2].twin = y1, !.syms[y2].status = "SAME"],
                               Tail(list1), list2)

xsplice_correlate_symbols(kk, symlist1, symlist2) == CorrelateSyms(kk, symlist1, symlist2)

xsplice_correlate_elfs(kk) ==
    xsplice_correlate_symbols(xsplice_correlate_sections(kk, kk.bsecs, kk.psecs),
                              kk.bsyms, kk.psyms)

-----------------------------------------------------------------------------
(* xsplice_find_static_twin, xsplice_correlate_static_local_variables *)

\* the base candidates: untwinned targets of the twin's relocations, mangled-equal to name
StaticCandidates(kk, relas, name) ==
    {relas[i].sym : i \in {j \in 1..Len(relas) :
                              /\ kk.syms[relas[j].sym].twin = NULL
                              /\ xsplice_mangled_strcmp(kk.syms[relas[j].sym].name, name) = 0}}

\* [err, sym]: err when the patched section holds another orphan of that name, or
\* the base section holds two candidates
\* a plausible slip: the other orphans of the patched section are not looked at
find_static_twin_noorphan(kk, s, y) ==
    LET sec == kk.secs[s]
        sym == kk.syms[y]
    IN IF sec.twin = NULL THEN [err |-> FALSE, sym |-> NULL]
       ELSE LET c == StaticCandidates(kk, kk.secs[sec.twin].relas, sym.name)
            IN IF Cardinality(c) > 1 THEN [err |-> TRUE, sym |-> NULL]
               ELSE IF c = {} THEN [err |-> FALSE, sym |-> NULL]
               ELSE [err |-> FALSE, sym |-> CHOOSE b \in c : TRUE]

xsplice_find_static_twin(kk, s, y) ==
    LET sec == kk.secs[s]
        sym == kk.syms[y]
    IN IF sec.twin = NULL THEN [err |-> FALSE, sym |-> NULL]
       ELSE IF \E i \in 1..Len(sec.relas) :
                   /\ sec.relas[i].sym # y
                   /\ kk.syms[sec.relas[i].sym].twin = NULL
                   /\ xsplice_mangled_strcmp(kk.syms[sec.relas[i].sym].name, sym.name) = 0
            THEN [err |-> TRUE, sym |-> NULL]
       ELSE LET c == StaticCandidates(kk, kk.secs[sec.twin].relas, sym.name)
            IN IF Cardinality(c) > 1 THEN [err |-> TRUE, sym |-> NULL]
               ELSE IF c = {} THEN [err |-> FALSE, sym |-> NULL]
               ELSE [err |-> FALSE, sym |-> CHOOSE b \in c : TRUE]

\* the walk over the text relocation sections that reference y:
\* acc = [err, sec, basesym]
RECURSIVE StaticWalk(_, _, _, _)
StaticWalk(kk, y, rest, acc) ==
    IF rest = <<>> \/ acc.err THEN acc
    ELSE LET t == Head(rest)
             tsec == kk.secs[t]
         IN IF ~is_rela_section(tsec) \/ ~is_text_section(kk.secs[tsec.base])
               \/ is_debug_section(kk.secs, t)
               \/ ~\E i \in 1..Len(tsec.relas) : tsec.relas[i].sym = y
            THEN StaticWalk(kk, y, Tail(rest), acc)
            ELSE LET r == xsplice_find_static_twin(kk, t, y)
                 IN IF r.err
                       \/ (acc.basesym # NULL /\ r.sym # NULL /\ acc.basesym # r.sym)
                    THEN [acc EXCEPT !.err = TRUE]
                    ELSE StaticWalk(kk, y, Tail(rest),
                                    [err |-> FALSE, sec |-> t,
                                     basesym |-> IF r.sym # NULL /\ acc.basesym = NULL
                                                 THEN r.sym ELSE acc.basesym])

StaticOne(kk, y) ==
    LET sym == kk.syms[y]
    IN IF sym.type # "OBJECT" \/ sym.bind # "LOCAL" \/ sym.twin # NULL THEN kk
       ELSE IF is_special_static(kk, y) THEN kk
       ELSE IF ~HasChar(sym.name, ".") THEN kk
       ELSE LET w == StaticWalk(kk, y, kk.psecs, [err |-> FALSE, sec |-> NULL, basesym |-> NULL])
            IN IF w.err THEN Error(kk)
               ELSE IF w.sec = NULL THEN Error(kk)
               ELSE IF w.basesym = NULL THEN kk
               ELSE LET b == w.basesym
                        bsym == kk.syms[b]
                    IN IF sym.sec = NULL \/ bsym.sec = NULL THEN Crash(kk)
                       ELSE LET bundled == kk.secs[sym.sec].sym = y
                                basebundled == kk.secs[bsym.sec].sym = b
                            IN IF bundled # basebundled THEN Error(kk)
                               ELSE IF ~bundled /\ kk.secs[sym.sec].twin # bsym.sec
                                    THEN Error(kk)
                               ELSE LET k1 == [kk EXCEPT !.syms[y].name = bsym.name,
                                                         !.syms[y].twin = b,
                                                         !.syms[y].status = "SAME",
                                                         !.syms[b].twin = y,
                                                         !.syms[b].status = "SAME"]
                                    IN IF bundled
                                       THEN [k1 EXCEPT !.secs[sym.sec].twin = bsym.sec,
                                                       !.secs[bsym.sec].twin = sym.sec]
                                       ELSE k1

RECURSIVE StaticLocals(_, _)
StaticLocals(kk, rest) ==
    IF rest = <<>> \/ kk.err # 0 THEN kk
    ELSE StaticLocals(StaticOne(kk, Head(rest)), Tail(rest))

xsplice_correlate_static_local_variables(kk) == StaticLocals(kk, kk.psyms)

-----------------------------------------------------------------------------
(* xsplice_mark_ignored_sections *)

\* the C string that starts at data + off
RECURSIVE CStr(_, _)
CStr(data, off) ==
    IF At(data, off + 1) = NUL THEN <<>> ELSE <<data[off + 1]>> \o CStr(data, off + 1)

RECURSIVE MarkIgnored(_, _)
MarkIgnored(kk, relas) ==
    IF relas = <<>> \/ kk.err # 0 THEN kk
    ELSE LET r == Head(relas)
             strsec == kk.syms[r.sym].sec
         IN IF strsec = NULL THEN Crash(kk)
            ELSE LET k1 == [kk EXCEPT !.secs[strsec].status = "CHANGED",
                                      !.secs[strsec].include = TRUE]
                     name == CStr(kk.secs[strsec].data, r.addend)
                     found == find_section_by_name(k1, k1.psecs, name)
                 IN IF found = NULL THEN Error(k1)
                    ELSE LET ignoresec == IF is_rela_section(k1.secs[found])
                                          THEN k1.secs[found].base ELSE found
                             k2 == [k1 EXCEPT !.secs[ignoresec].ignore = TRUE]
                             k3 == IF k2.secs[ignoresec].twin # NULL
                                   THEN [k2 EXCEPT !.secs[k2.secs[ignoresec].twin].ignore = TRUE]
                                   ELSE k2
                         IN MarkIgnored(k3, Tail(relas))

xsplice_mark_ignored_sections(kk) ==
    LET sec == find_section_by_name(kk, kk.psecs, s_ignore_sections)
    IN IF sec = NULL THEN kk
       ELSE IF kk.secs[sec].rela = NULL THEN Crash(kk)
       ELSE MarkIgnored(kk, kk.secs[kk.secs[sec].rela].relas)

-----------------------------------------------------------------------------
(* rela_equal and the comparison of correlated sections and symbols *)

\* a plausible slip: the addends are not compared
rela_equal_noaddend(kk, rela1, rela2) ==
    /\ rela1.type = rela2.type
    /\ rela1.offset = rela2.offset
    /\ kk.syms[rela1.sym].name = kk.syms[rela2.sym].name

rela_equal(kk, rela1, rela2) ==
    LET sym1 == kk.syms[rela1.sym]
        sym2 == kk.syms[rela2.sym]
    IN IF rela1.type # rela2.type \/ rela1.offset # rela2.offset THEN FALSE
       ELSE IF rela1.string # NULLSTR
            THEN rela2.string # NULLSTR /\ rela1.string = rela2.string
       ELSE IF rela1.addend # rela2.addend THEN FALSE
       ELSE IF is_constant_label(sym1) /\ is_constant_label(sym2) THEN TRUE
       ELSE IF is_special_static(kk, rela1.sym)
            THEN xsplice_mangled_strcmp(sym1.name, sym2.name) = 0
       ELSE sym1.name = sym2.name

\* a plausible slip: the walk stops after the first pair
compare_rela_section_firstpair(kk, s) ==
    LET r1 == kk.secs[s].relas
        r2 == kk.secs[kk.secs[s].twin].relas
    IN IF r1 = <<>> \/ (r2 # <<>> /\ rela_equal(kk, r1[1], r2[1]))
       THEN "SAME" ELSE "CHANGED"

xsplice_compare_correlated_rela_section(kk, s) ==
    LET r1 == kk.secs[s].relas
        r2 == kk.secs[kk.secs[s].twin].relas
    IN IF \A i \in 1..Len(r1) : i <= Len(r2) /\ rela_equal(kk, r1[i], r2[i])
       THEN "SAME" ELSE "CHANGED"

xsplice_compare_correlated_nonrela_section(kk, s) ==
    LET sec1 == kk.secs[s]
        sec2 == kk.secs[sec1.twin]
    IN IF sec1.type # "NOBITS" /\ sec1.data # sec2.data THEN "CHANGED" ELSE "SAME"

\* a plausible slip: only the sizes are compared, never the bytes or the relocations
CompareCorrelated_sizeonly(kk, s) ==
    LET sec1 == kk.secs[s]
        sec2 == kk.secs[sec1.twin]
    IN IF sec1.size # sec2.size \/ Len(sec1.data) # Len(sec2.data) THEN "CHANGED" ELSE "SAME"

\* the status xsplice_compare_correlated_section gives, or "FATAL"
xsplice_compare_correlated_section(kk, s) ==
    LET sec1 == kk.secs[s]
        sec2 == kk.secs[sec1.twin]
    IN IF sec1.type # sec2.type \/ sec1.flags # sec2.flags \/ sec1.align # sec2.align
          \/ sec1.entsize # sec2.entsize
       THEN "FATAL"
       ELSE IF sec1.size # sec2.size \/ Len(sec1.data) # Len(sec2.data) THEN "CHANGED"
       ELSE IF is_rela_section(sec1) THEN xsplice_compare_correlated_rela_section(kk, s)
       ELSE xsplice_compare_correlated_nonrela_section(kk, s)

RECURSIVE CompareSecs(_, _)
CompareSecs(kk, rest) ==
    IF rest = <<>> \/ kk.err # 0 THEN kk
    ELSE LET s == Head(rest)
         IN IF kk.secs[s].twin = NULL
            THEN CompareSecs([kk EXCEPT !.secs[s].status = "NEW"], Tail(rest))
            ELSE LET st == xsplice_compare_correlated_section(kk, s)
                 IN IF st = "FATAL" THEN DiffFatal(kk)
                    ELSE CompareSecs([kk EXCEPT !.secs[s].status = st], Tail(rest))

RECURSIVE SyncSymStatus(_, _)
SyncSymStatus(kk, rest) ==
    IF rest = <<>> THEN kk
    ELSE LET sec == kk.secs[Head(rest)]
             b == IF is_rela_section(sec) THEN kk.secs[sec.base].sym ELSE sec.sym
         IN IF b # NULL /\ kk.syms[b].status # "CHANGED"
            THEN SyncSymStatus([kk EXCEPT !.syms[b].status = sec.status], Tail(rest))
            ELSE SyncSymStatus(kk, Tail(rest))

xsplice_compare_sections(kk, seclist) ==
    LET k1 == CompareSecs(kk, seclist)
    IN IF k1.err # 0 THEN k1 ELSE SyncSymStatus(k1, seclist)

xsplice_compare_correlated_symbol(kk, y) ==
    LET sym1 == kk.syms[y]
        sym2 == kk.syms[sym1.twin]
    IN IF sym1.bind # sym2.bind \/ sym1.type # sym2.type
          \/ (sym1.sec # NULL /\ sym2.sec = NULL) \/ (sym2.sec # NULL /\ sym1.sec = NULL)
       THEN DiffFatal(kk)
       ELSE LET moved == sym1.sec # NULL /\ sym2.sec # NULL
                         /\ kk.secs[sym1.sec].twin # sym2.sec
                allowed == kk.secs[sym2.sec].twin # NULL
                           /\ kk.secs[kk.secs[sym2.sec].twin].ignore
            IN IF moved /\ ~allowed THEN DiffFatal(kk)
               ELSE IF sym1.type = "OBJECT" /\ sym1.size # sym2.size THEN DiffFatal(kk)
               ELSE LET k1 == IF moved THEN [kk EXCEPT !.syms[y].status = "CHANGED"] ELSE kk
                    IN IF sym1.shndx = SHN_UNDEF \/ sym1.shndx = SHN_ABS
                       THEN [k1 EXCEPT !.syms[y].status = "SAME"]
                       ELSE k1

RECURSIVE CompareSyms(_, _)
CompareSyms(kk, rest) ==
    IF rest = <<>> \/ kk.err # 0 THEN kk
    ELSE LET y == Head(rest)
         IN IF kk.syms[y].twin # NULL
            THEN CompareSyms(xsplice_compare_correlated_symbol(kk, y), Tail(rest))
            ELSE CompareSyms([kk EXCEPT !.syms[y].status = "NEW"], Tail(rest))

xsplice_compare_symbols(kk, symlist) == CompareSyms(kk, symlist)

xsplice_compare_correlated_elements(kk) ==
    LET k1 == xsplice_compare_sections(kk, kk.psecs)
    IN IF k1.err # 0 THEN k1 ELSE xsplice_compare_symbols(k1, k1.psyms)

-----------------------------------------------------------------------------
(* xsplice_mark_ignored_functions_same, xsplice_mark_ignored_sections_same,   *)
(* xsplice_mark_constant_labels_same                                           *)

RECURSIVE IgnoreFuncs(_, _)
IgnoreFuncs(kk, relas) ==
    IF relas = <<>> \/ kk.err # 0 THEN kk
    ELSE LET y == Head(relas).sym
             sym == kk.syms[y]
         IN IF sym.sec = NULL \/ sym.type # "FUNC" THEN Error(kk)
            ELSE LET sec == kk.secs[sym.sec]
                     k1 == [kk EXCEPT !.syms[y].status = "SAME",
                                      !.secs[sym.sec].status = "SAME"]
                     k2 == IF sec.secsym # NULL
                           THEN [k1 EXCEPT !.syms[sec.secsym].status = "SAME"] ELSE k1
                     k3 == IF sec.rela # NULL
                           THEN [k2 EXCEPT !.secs[sec.rela].status = "SAME"] ELSE k2
                 IN IgnoreFuncs(k3, Tail(relas))

\* only the function symbols are marked
mark_ignored_functions_symonly(kk) ==
    LET sec == find_section_by_name(kk, kk.psecs, s_ignore_functions)
    IN IF sec = NULL THEN kk
       ELSE IF kk.secs[sec].rela = NULL THEN Crash(kk)
       ELSE LET relas == kk.secs[kk.secs[sec].rela].relas
                targets == {relas[i].sym : i \in 1..Len(relas)}
            IN [kk EXCEPT !.syms = [y \in DOMAIN kk.syms |->
                                      IF y \in targets
                                      THEN [kk.syms[y] EXCEPT !.status = "SAME"]
                                      ELSE kk.syms[y]]]

xsplice_mark_ignored_functions_same(kk) ==
    LET sec == find_section_by_name(kk, kk.psecs, s_ignore_functions)
    IN IF sec = NULL THEN kk
       ELSE IF kk.secs[sec].rela = NULL THEN Crash(kk)
       ELSE IgnoreFuncs(kk, kk.secs[kk.secs[sec].rela].relas)

RECURSIVE IgnoredSame(_, _)
IgnoredSame(kk, rest) ==
    IF rest = <<>> THEN kk
    ELSE LET s == Head(rest)
             sec == kk.secs[s]
         IN IF ~sec.ignore THEN IgnoredSame(kk, Tail(rest))
            ELSE LET k1 == [kk EXCEPT !.secs[s].status = "SAME"]
                     k2 == IF sec.secsym # NULL
                           THEN [k1 EXCEPT !.syms[sec.secsym].status = "SAME"] ELSE k1
                     k3 == IF sec.rela # NULL
                           THEN [k2 EXCEPT !.secs[sec.rela].status = "SAME"] ELSE k2
                     k4 == [k3 EXCEPT !.syms =
                              [y \in DOMAIN k3.syms |->
                                  IF y \in Range(k3.psyms) /\ k3.syms[y].sec = s
                                  THEN [k3.syms[y] EXCEPT !.status = "SAME"]
                                  ELSE k3.syms[y]]]
                 IN IgnoredSame(k4, Tail(rest))

\* only the section itself is marked
mark_ignored_sections_seconly(kk) ==
    [kk EXCEPT !.secs = [s \in DOMAIN kk.secs |->
                           IF s \in Range(kk.psecs) /\ kk.secs[s].ignore
                           THEN [kk.secs[s] EXCEPT !.status = "SAME"]
                           ELSE kk.secs[s]]]

xsplice_mark_ignored_sections_same(kk) == IgnoredSame(kk, kk.psecs)

xsplice_mark_constant_labels_same(kk) ==
    [kk EXCEPT !.syms =
        [y \in DOMAIN kk.syms |->
            IF y \in Range(kk.psyms) /\ is_constant_label(kk.syms[y])
            THEN [kk.syms[y] EXCEPT !.status = "SAME"]
            ELSE kk.syms[y]]]

-----------------------------------------------------------------------------
(* The special sections: group sizes, should_keep_rela_group,                  *)
(* xsplice_regenerate_special_section, xsplice_process_special_sections        *)

\* index of the first relocation at or after i that targets .fixup with an addend
\* equal to offset (beyond = FALSE) or larger than offset (beyond = TRUE), 0 if none
RECURSIVE FixupRef(_, _, _, _, _)
FixupRef(kk, relas, i, offset, beyond) ==
    IF i > Len(relas) THEN 0
    ELSE IF kk.syms[relas[i].sym].name = s_fixup
            /\ (IF beyond THEN relas[i].addend > offset ELSE relas[i].addend = offset)
         THEN i
    ELSE FixupRef(kk, relas, i + 1, offset, beyond)

\* [err, size]
fixup_group_size(kk, offset) ==
    LET sec == find_section_by_name(kk, kk.psecs, s_rela_ex_table)
    IN IF sec = NULL THEN [err |-> TRUE, size |-> 0]
       ELSE LET relas == kk.secs[sec].relas
                first == FixupRef(kk, relas, 1, offset, FALSE)
                next == FixupRef(kk, relas, first + 1, offset, TRUE)
            IN IF first = 0 THEN [err |-> TRUE, size |-> 0]
               ELSE IF next = 0
                    THEN [err |-> FALSE,
                          size |-> kk.secs[find_section_by_name(kk, kk.psecs, s_fixup)].size
                                   - offset]
                    ELSE [err |-> FALSE, size |-> relas[next].addend - offset]

special_sections ==
    <<s_bug_frames_0, s_bug_frames_1, s_bug_frames_2, s_bug_frames_3, s_fixup, s_ex_table,
      s_altinstructions>>

group_size(kk, name, offset) ==
    IF name = s_fixup THEN fixup_group_size(kk, offset)
    ELSE IF name = s_bug_frames_3 THEN [err |-> FALSE, size |-> 16]
    ELSE IF name = s_altinstructions THEN [err |-> FALSE, size |-> 12]
    ELSE [err |-> FALSE, size |-> 8]

InGroup(r, start, size) == r.offset >= start /\ r.offset < start + size

\* a plausible slip: a group is kept whenever it holds a relocation to a function
should_keep_anyfunc(kk, relas, start, size) ==
    \E i \in 1..Len(relas) :
        /\ InGroup(relas[i], start, size)
        /\ kk.syms[relas[i].sym].type = "FUNC"

should_keep_rela_group(kk, relas, start, size) ==
    \E i \in 1..Len(relas) :
        /\ InGroup(relas[i], start, size)
        /\ kk.syms[relas[i].sym].type = "FUNC"
        /\ kk.secs[kk.syms[relas[i].sym].sec].include

\* the walk over the groups: w = [kk, relas (left in the section), newrelas, dest,
\* src_offset, dest_offset]
RECURSIVE GroupWalk(_, _, _)
GroupWalk(w, name, s) ==
    LET kk == w.kk
        base == kk.secs[kk.secs[s].base]
    IN IF kk.err # 0 \/ ~(w.src_offset < base.size) THEN w
       ELSE LET g == group_size(kk, name, w.src_offset)
            IN IF g.err THEN [w EXCEPT !.kk = Error(kk)]
               ELSE IF \E i \in 1..Len(w.relas) :
                          /\ InGroup(w.relas[i], w.src_offset, g.size)
                          /\ kk.syms[w.relas[i].sym].type = "FUNC"
                          /\ kk.syms[w.relas[i].sym].sec = NULL
                    THEN [w EXCEPT !.kk = Crash(kk)]
               ELSE IF ~should_keep_rela_group(kk, w.relas, w.src_offset, g.size)
                    THEN GroupWalk([w EXCEPT !.src_offset = w.src_offset + g.size], name, s)
               ELSE IF w.src_offset + g.size > Len(base.data)
                    THEN [w EXCEPT !.kk = Crash(kk)]
               ELSE LET In(r) == InGroup(r, w.src_offset, g.size)
                        Out(r) == ~InGroup(r, w.src_offset, g.size)
                        moved == SelectSeq(w.relas, In)
                        rebased == [i \in 1..Len(moved) |->
                                      [moved[i] EXCEPT !.offset =
                                          moved[i].offset - (w.src_offset - w.dest_offset)]]
                        targets == {moved[i].sym : i \in 1..Len(moved)}
                        k1 == [kk EXCEPT !.syms =
                                 [y \in DOMAIN kk.syms |->
                                     IF y \in targets THEN [kk.syms[y] EXCEPT !.include = TRUE]
                                     ELSE kk.syms[y]]]
                    IN GroupWalk([kk |-> k1,
                                  relas |-> SelectSeq(w.relas, Out),
                                  newrelas |-> w.newrelas \o rebased,
                                  dest |-> w.dest \o SubSeq(base.data, w.src_offset + 1,
                                                            w.src_offset + g.size),
                                  src_offset |-> w.src_offset + g.size,
                                  dest_offset |-> w.dest_offset + g.size], name, s)

xsplice_regenerate_special_section(kk, name, s) ==
    LET b == kk.secs[s].base
        w == GroupWalk([kk |-> kk, relas |-> kk.secs[s].relas, newrelas |-> <<>>,
                        dest |-> <<>>, src_offset |-> 0, dest_offset |-> 0], name, s)
        k1 == w.kk
        align == kk.secs[b].align
        aligned_size == ((kk.secs[b].size + align - 1) \div align) * align
    IN IF k1.err # 0 THEN k1
       ELSE IF w.src_offset # aligned_size THEN Error(k1)
       ELSE IF w.dest_offset = 0
            THEN [k1 EXCEPT !.secs[s].status = "SAME", !.secs[b].status = "SAME",
                            !.secs[s].include = FALSE, !.secs[b].include = FALSE]
       ELSE [k1 EXCEPT !.secs[s].relas = w.newrelas,
                       !.secs[s].include = TRUE, !.secs[b].include = TRUE,
                       !.secs[b].data = w.dest]

RECURSIVE ProcessSpecials(_, _)
ProcessSpecials(kk, names) ==
    IF names = <<>> \/ kk.err # 0 THEN kk
    ELSE LET sec == find_section_by_name(kk, kk.psecs, Head(names))
         IN IF sec = NULL \/ kk.secs[sec].rela = NULL THEN ProcessSpecials(kk, Tail(names))
            ELSE ProcessSpecials(
                     xsplice_regenerate_special_section(kk, Head(names), kk.secs[sec].rela),
                     Tail(names))

RECURSIVE IncludeAltinstr(_, _)
IncludeAltinstr(kk, rest) ==
    IF rest = <<>> THEN kk
    ELSE LET s == Head(rest)
             sec == kk.secs[s]
         IN IF sec.name # s_altinstr_replacement THEN IncludeAltinstr(kk, Tail(rest))
            ELSE LET targets == IF sec.rela = NULL THEN {}
                                ELSE {kk.secs[sec.rela].relas[i].sym :
                                         i \in 1..Len(kk.secs[sec.rela].relas)}
                     k1 == [kk EXCEPT !.secs[s].include = TRUE,
                                      !.syms = [y \in DOMAIN kk.syms |->
                                                  IF (y \in Range(kk.psyms) /\ kk.syms[y].sec = s)
                                                     \/ y \in targets
                                                  THEN [kk.syms[y] EXCEPT !.include = TRUE]
                                                  ELSE kk.syms[y]]]
                     k2 == IF sec.rela # NULL
                           THEN [k1 EXCEPT !.secs[sec.rela].include = TRUE] ELSE k1
                 IN IncludeAltinstr(k2, Tail(rest))

xsplice_process_special_sections(kk) ==
    LET k1 == ProcessSpecials(kk, special_sections)
    IN IF k1.err # 0 THEN k1 ELSE IncludeAltinstr(k1, k1.psecs)

-----------------------------------------------------------------------------
(* The inclusion passes *)

xsplice_include_standard_elements(kk) ==
    LET Std(s) == kk.secs[s].name \in {s_shstrtab, s_strtab, s_symtab}
                  \/ HasPrefix(kk.secs[s].name, p_str1)
        std == {s \in Range(kk.psecs) : Std(s)}
        stdsyms == {kk.secs[s].secsym : s \in std} \ {NULL}
    IN [kk EXCEPT
          !.secs = [s \in DOMAIN kk.secs |->
                      IF s \in std THEN [kk.secs[s] EXCEPT !.include = TRUE] ELSE kk.secs[s]],
          !.syms = [y \in DOMAIN kk.syms |->
                      IF y \in stdsyms \/ y = Head(kk.psyms)
                      THEN [kk.syms[y] EXCEPT !.include = TRUE] ELSE kk.syms[y]]]

\* the base case of the inclusion recursion
IsBaseCase_unmarked(kk, y) ==
    LET sym == kk.syms[y]
    IN sym.sec = NULL \/ (sym.type # "SECTION" /\ sym.status = "SAME")

IsBaseCase(kk, y) ==
    LET sym == kk.syms[y]
    IN sym.sec = NULL \/ kk.secs[sym.sec].include
       \/ (sym.type # "SECTION" /\ sym.status = "SAME")

RECURSIVE xsplice_include_symbol(_, _)
RECURSIVE IncludeTargets(_, _)
IncludeTargets(kk, relas) ==
    IF relas = <<>> THEN kk
    ELSE IncludeTargets(xsplice_include_symbol(kk, Head(relas).sym), Tail(relas))

xsplice_include_symbol(kk, y) ==
    LET k1 == [kk EXCEPT !.syms[y].include = TRUE]
    IN IF IsBaseCase(kk, y) THEN k1
       ELSE LET s == kk.syms[y].sec
                sec == kk.secs[s]
                k2 == [k1 EXCEPT !.secs[s].include = TRUE]
                k3 == IF sec.secsym # NULL /\ sec.secsym # y
                      THEN [k2 EXCEPT !.syms[sec.secsym].include = TRUE] ELSE k2
            IN IF sec.rela = NULL THEN k3
               ELSE IncludeTargets([k3 EXCEPT !.secs[sec.rela].include = TRUE],
                                   kk.secs[sec.rela].relas)

\* a plausible slip: the symbol type is not tested
IsChangedFunc_anytype(sym) == sym.status = "CHANGED"

IsChangedFunc(sym) == sym.status = "CHANGED" /\ sym.type = "FUNC"

RECURSIVE IncludeChanged(_, _)
IncludeChanged(kk, rest) ==
    IF rest = <<>> THEN kk
    ELSE LET y == Head(rest)
             sym == kk.syms[y]
             k1 == IF IsChangedFunc(sym)
                   THEN [xsplice_include_symbol(kk, y) EXCEPT !.num_changed = @ + 1]
                   ELSE kk
             k2 == IF sym.type = "FILE" THEN [k1 EXCEPT !.syms[y].include = TRUE] ELSE k1
         IN IncludeChanged(k2, Tail(rest))

xsplice_include_changed_functions(kk) == IncludeChanged([kk EXCEPT !.num_changed = 0], kk.psyms)

xsplice_include_debug_sections(kk) ==
    LET dbg == {s \in Range(kk.psecs) : is_debug_section(kk.secs, s)}
        nonrela == {s \in dbg : ~is_rela_section(kk.secs[s])}
    IN IF \E s \in nonrela : kk.secs[s].secsym = NULL THEN Crash(kk)
       ELSE LET k1 == [kk EXCEPT
                         !.secs = [s \in DOMAIN kk.secs |->
                                     IF s \in dbg THEN [kk.secs[s] EXCEPT !.include = TRUE]
                                     ELSE kk.secs[s]],
                         !.syms = [y \in DOMAIN kk.syms |->
                                     IF \E s \in nonrela : kk.secs[s].secsym = y
                                     THEN [kk.syms[y] EXCEPT !.include = TRUE]
                                     ELSE kk.syms[y]]]
                Keep(r) == k1.secs[k1.syms[r.sym].sec].include
            IN IF \E s \in dbg \ nonrela : \E i \in 1..Len(k1.secs[s].relas) :
                      k1.syms[k1.secs[s].relas[i].sym].sec = NULL
               THEN Crash(k1)
               ELSE [k1 EXCEPT !.secs =
                       [s \in DOMAIN k1.secs |->
                           IF s \in dbg \ nonrela
                           THEN [k1.secs[s] EXCEPT !.relas = SelectSeq(@, Keep)]
                           ELSE k1.secs[s]]]

IsHookName(name) ==
    name \in {s_hooks_load, s_hooks_unload, s_rela_hooks_load, s_rela_hooks_unload}

RECURSIVE IncludeHooks(_, _)
IncludeHooks(kk, rest) ==
    IF rest = <<>> \/ kk.err # 0 THEN kk
    ELSE LET s == Head(rest)
             sec == kk.secs[s]
         IN IF ~IsHookName(sec.name) THEN IncludeHooks(kk, Tail(rest))
            ELSE LET k1 == [kk EXCEPT !.secs[s].include = TRUE]
                 IN IF is_rela_section(sec)
                    THEN IF sec.relas = <<>> THEN Crash(k1)
                         ELSE LET y == sec.relas[1].sym
                                  k2 == xsplice_include_symbol(k1, y)
                                  ysec == k2.syms[y].sec
                              IN IF ysec = NULL THEN Crash(k2)
                                 ELSE IncludeHooks(
                                        [k2 EXCEPT !.syms[y].include = FALSE,
                                                   !.secs[ysec].sym = NULL,
                                                   !.secs[s].relas[1].sym = k2.secs[ysec].secsym],
                                        Tail(rest))
                    ELSE IF sec.secsym = NULL THEN Crash(k1)
                         ELSE IncludeHooks([k1 EXCEPT !.syms[sec.secsym].include = TRUE],
                                           Tail(rest))

xsplice_include_hook_elements(kk) ==
    LET k1 == IncludeHooks(kk, kk.psecs)
    IN IF k1.err # 0 THEN k1
       ELSE [k1 EXCEPT !.syms =
               [y \in DOMAIN k1.syms |->
                   IF y \in Range(k1.psyms) /\ k1.syms[y].name \in {s_load_data, s_unload_data}
                   THEN [k1.syms[y] EXCEPT !.include = FALSE]
                   ELSE k1.syms[y]]]

IsNewGlobal(sym) == sym.bind = "GLOBAL" /\ sym.sec # NULL /\ sym.status = "NEW"

RECURSIVE NewGlobalsWalk(_, _)
NewGlobalsWalk(kk, rest) ==
    IF rest = <<>> THEN kk
    ELSE LET y == Head(rest)
         IN IF IsNewGlobal(kk.syms[y])
            THEN NewGlobalsWalk([xsplice_include_symbol(kk, y) EXCEPT !.new_globals = @ + 1],
                                   Tail(rest))
            ELSE NewGlobalsWalk(kk, Tail(rest))

xsplice_include_new_globals(kk) == NewGlobalsWalk([kk EXCEPT !.new_globals = 0], kk.psyms)

-----------------------------------------------------------------------------
(* xsplice_verify_patchability, xsplice_migrate_included_elements              *)

Unpatchable_nogroup(sec) ==
    \/ sec.status = "CHANGED" /\ ~sec.include
    \/ sec.type = "GROUP" /\ sec.status = "NEW"
    \/ /\ sec.include
       /\ sec.status # "NEW"
       /\ (HasPrefix(sec.name, p_dotdata) \/ HasPrefix(sec.name, p_dotbss))
       /\ sec.name # s_data_unlikely

Unpatchable(sec) ==
    \/ sec.status = "CHANGED" /\ ~sec.include
    \/ sec.status # "SAME" /\ sec.grouped
    \/ sec.type = "GROUP" /\ sec.status = "NEW"
    \/ /\ sec.include
       /\ sec.status # "NEW"
       /\ (HasPrefix(sec.name, p_dotdata) \/ HasPrefix(sec.name, p_dotbss))
       /\ sec.name # s_data_unlikely

xsplice_verify_patchability(kk) ==
    IF \E s \in Range(kk.psecs) : Unpatchable(kk.secs[s]) THEN DiffFatal(kk) ELSE kk

xsplice_migrate_included_elements(kk) ==
    LET SecIn(s) == kk.secs[s].include
        SecOut(s) == ~kk.secs[s].include
        SymIn(y) == kk.syms[y].include
        SymOut(y) == ~kk.syms[y].include
        osecs == SelectSeq(kk.psecs, SecIn)
        osyms == SelectSeq(kk.psyms, SymIn)
    IN [kk EXCEPT
          !.osecs = osecs,
          !.psecs = SelectSeq(kk.psecs, SecOut),
          !.osyms = osyms,
          !.psyms = SelectSeq(kk.psyms, SymOut),
          !.secs = [s \in DOMAIN kk.secs |->
                      IF s \in Range(osecs)
                      THEN [kk.secs[s] EXCEPT
                              !.index = 0,
                              !.secsym = IF ~is_rela_section(kk.secs[s]) /\ @ # NULL
                                            /\ ~kk.syms[@].include
                                         THEN NULL ELSE @]
                      ELSE kk.secs[s]],
          !.syms = [y \in DOMAIN kk.syms |->
                      IF y \in Range(osyms)
                      THEN [kk.syms[y] EXCEPT
                              !.index = 0,
                              !.sec = IF @ # NULL /\ ~kk.secs[@].include THEN NULL ELSE @]
                      ELSE kk.syms[y]]]

\* xsplice_elf_teardown: the elements still on the lists of a model are freed
Restrict(f, S) == [x \in S |-> f[x]]

TeardownBase(kk) ==
    [kk EXCEPT !.secs = Restrict(kk.secs, DOMAIN kk.secs \ Range(kk.bsecs)),
               !.syms = Restrict(kk.syms, DOMAIN kk.syms \ Range(kk.bsyms)),
               !.freedsecs = Restrict(kk.secs, Range(kk.bsecs)),
               !.freedsyms = Restrict(kk.syms, Range(kk.bsyms)),
               !.bsecs = <<>>, !.bsyms = <<>>]

TeardownPatched(kk) ==
    [kk EXCEPT !.secs = Restrict(kk.secs, DOMAIN kk.secs \ Range(kk.psecs)),
               !.syms = Restrict(kk.syms, DOMAIN kk.syms \ Range(kk.psyms)),
               !.psecs = <<>>, !.psyms = <<>>]

-----------------------------------------------------------------------------
(* The patch table: xsplice_create_strings_elements, offset_of_string,        *)
(* mangle_local_symbol, xsplice_create_patches_sections,                       *)
(* xsplice_build_strings_section_data, xsplice_rename_local_symbols            *)

\* the hint: the name of the first STT_FILE symbol of the output, or NULLSTR
RECURSIVE FindHint(_, _)
FindHint(kk, list) ==
    IF list = <<>> THEN NULLSTR
    ELSE IF kk.syms[Head(list)].type = "FILE" THEN kk.syms[Head(list)].name
    ELSE FindHint(kk, Tail(list))

FreshSec(kk) == CHOOSE n \in 201..(201 + Cardinality(DOMAIN kk.secs)) : n \notin DOMAIN kk.secs
FreshSym(kk) == CHOOSE n \in 201..(201 + Cardinality(DOMAIN kk.syms)) : n \notin DOMAIN kk.syms

xsplice_create_strings_elements(kk) ==
    LET s == FreshSec(kk)
        y == FreshSym(kk)
    IN [kk EXCEPT
          !.secs = @ @@ (s :> NewSec(s_xsplice_strings, "PROGBITS", {"ALLOC"}, <<>>, 0, 1, 1)),
          !.osecs = Append(@, s),
          !.syms = @ @@ (y :> [NewSym(s_xsplice_strings, "SECTION", "LOCAL", 0, 0, SHN_UNDEF)
                                 EXCEPT !.sec = s]),
          !.osyms = Append(@, y)]

mangle_local_symbol(filename, symname) == Cat(Cat(filename, s_hash), symname)

\* offset of the first string equal to name, or the offset where it is appended
RECURSIVE StringOffset(_, _)
StringOffset(strings, name) ==
    IF strings = <<>> THEN 0
    ELSE IF Head(strings) = name THEN 0
    ELSE Len(Head(strings)) + 1 + StringOffset(Tail(strings), name)

offset_of_string(strings, name) ==
    [offset |-> StringOffset(strings, name),
     strings |-> IF \E i \in 1..Len(strings) : strings[i] = name THEN strings
                 ELSE Append(strings, name)]

create_section_pair(kk, name, entsize, nr) ==
    LET s == FreshSec(kk)
        r == s + 1
    IN [kk EXCEPT
          !.secs = @ @@ (s :> [NewSec(name, "PROGBITS", {"ALLOC"},
                                      [i \in 1..(entsize * nr) |-> NUL], entsize * nr, 8, entsize)
                                 EXCEPT !.rela = r])
                     @@ (r :> [NewSec(Cat(p_rela, name), "RELA", {}, <<>>, 0, 8, RelaEntSize)
                                 EXCEPT !.base = s]),
          !.osecs = @ \o <<s, r>>]

\* a plausible slip: the entry is written without the lookup having succeeded
PatchEntryOk_nolookup(res) == TRUE

\* the lookup succeeded and the old function is large enough to hold the patch
PatchEntryOk(res) == res.found /\ res.size >= PATCH_INSN_SIZE

\* a plausible slip: the new size is taken from the old function
PatchEntry_oldsize(sym, res, resolve) ==
    [old_addr |-> IF resolve THEN res.value ELSE 0, old_size |-> res.size,
     new_addr |-> 0, new_size |-> res.size]

PatchEntry(sym, res, resolve) ==
    [old_addr |-> IF resolve THEN res.value ELSE 0, old_size |-> res.size,
     new_addr |-> 0, new_size |-> sym.size]

\* the loop over the output symbols: index counts the entries written so far
RECURSIVE PatchLoop(_, _, _, _, _, _, _)
PatchLoop(kk, rest, relasec, strsym, table, hint, resolve) ==
    IF rest = <<>> \/ kk.err # 0 THEN kk
    ELSE LET y == Head(rest)
             sym == kk.syms[y]
         IN IF ~IsChangedFunc(sym)
            THEN PatchLoop(kk, Tail(rest), relasec, strsym, table, hint, resolve)
            ELSE LET funcname == IF sym.bind = "LOCAL" THEN mangle_local_symbol(hint, sym.name)
                                 ELSE sym.name
                     res == table[sym.name]
                     index == Len(kk.funcs)
                     k0 == [kk EXCEPT !.lookups = Append(@, [name |-> sym.name, res |-> res])]
                 IN IF ~PatchEntryOk(res) THEN Error(k0)
                    ELSE LET o == offset_of_string(kk.strings, funcname)
                             k1 == [k0 EXCEPT
                                      !.funcs = Append(@, PatchEntry(sym, res, resolve)),
                                      !.strings = o.strings,
                                      !.secs[relasec].relas = @ \o
                                         <<NewRela(index * SizeofPatchFunc, "R64", 0, y,
                                                   NULLSTR, 0),
                                           NewRela(index * SizeofPatchFunc + OffsetofName, "R64",
                                                   o.offset, strsym, NULLSTR, 0)>>]
                         IN PatchLoop(k1, Tail(rest), relasec, strsym, table, hint, resolve)

xsplice_create_patches_sections(kk, table, hint, resolve) ==
    LET IsCF(y) == IsChangedFunc(kk.syms[y])
        nr == Len(SelectSeq(kk.osyms, IsCF))
        k1 == create_section_pair(kk, s_xsplice_funcs, SizeofPatchFunc, nr)
        sec == find_section_by_name(k1, k1.osecs, s_xsplice_funcs)
        strsym == find_symbol_by_name(k1, k1.osyms, s_xsplice_strings)
    IN IF strsym = NULL THEN Error(k1)
       ELSE LET k2 == PatchLoop(k1, k1.osyms, k1.secs[sec].rela, strsym, table, hint, resolve)
            IN IF k2.err # 0 THEN k2
               ELSE IF Len(k2.funcs) # nr THEN Error(k2)
               ELSE k2

RECURSIVE StrTab(_)
StrTab(strings) ==
    IF strings = <<>> THEN <<>> ELSE Head(strings) \o <<NUL>> \o StrTab(Tail(strings))

xsplice_build_strings_section_data(kk) ==
    LET sec == find_section_by_name(kk, kk.osecs, s_xsplice_strings)
    IN IF sec = NULL THEN Error(kk)
       ELSE [kk EXCEPT !.secs[sec].data = StrTab(kk.strings)]

xsplice_rename_local_symbols(kk, hint) ==
    [kk EXCEPT !.syms =
        [y \in DOMAIN kk.syms |->
            IF y \in Range(kk.osyms) /\ kk.syms[y].name # s_empty
               /\ kk.syms[y].type \in {"FUNC", "OBJECT"} /\ kk.syms[y].bind = "LOCAL"
            THEN [kk.syms[y] EXCEPT !.name = mangle_local_symbol(hint, @)]
            ELSE kk.syms[y]]]

-----------------------------------------------------------------------------
(* xsplice_migrate_symbols, xsplice_reorder_symbols, xsplice_reindex_elements  *)

is_null_sym(sym) == Len(sym.name) = 0
is_file_sym(sym) == sym.type = "FILE"
is_local_func_sym(sym) == sym.bind = "LOCAL" /\ sym.type = "FUNC"

\* select: "null", "file", "localfunc", "local", or "all" for a NULL selector
Selected(sym, select) ==
    CASE select = "null" -> is_null_sym(sym)
      [] select = "file" -> is_file_sym(sym)
      [] select = "localfunc" -> is_local_func_sym(sym)
      [] select = "local" -> is_local_sym(sym)
      [] OTHER -> TRUE

\* [src, dst] after the selected symbols moved from src to the tail of dst
xsplice_migrate_symbols(kk, m, select) ==
    LET Sel(y) == Selected(kk.syms[y], select)
        NotSel(y) == ~Selected(kk.syms[y], select)
    IN [src |-> SelectSeq(m.src, NotSel), dst |-> m.dst \o SelectSeq(m.src, Sel)]

\* a plausible slip: the local functions are not moved ahead of the other locals
ReorderBuckets_nofunc == <<"null", "file", "local", "all">>

ReorderBuckets == <<"null", "file", "localfunc", "local", "all">>

RECURSIVE ReorderWalk(_, _, _)
ReorderWalk(kk, m, buckets) ==
    IF buckets = <<>> THEN m
    ELSE ReorderWalk(kk, xsplice_migrate_symbols(kk, m, Head(buckets)), Tail(buckets))

xsplice_reorder_symbols(kk) ==
    [kk EXCEPT !.osyms = ReorderWalk(kk, [src |-> kk.osyms, dst |-> <<>>], ReorderBuckets).dst]

PosOf(seq, x) == CHOOSE i \in 1..Len(seq) : seq[i] = x

xsplice_reindex_elements(kk) ==
    LET secidx(s) == PosOf(kk.osecs, s)
    IN [kk EXCEPT
          !.secs = [s \in DOMAIN kk.secs |->
                      IF s \in Range(kk.osecs) THEN [kk.secs[s] EXCEPT !.index = secidx(s)]
                      ELSE kk.secs[s]],
          !.syms = [y \in DOMAIN kk.syms |->
                      IF y \in Range(kk.osyms)
                      THEN [kk.syms[y] EXCEPT
                              !.index = PosOf(kk.osyms, y) - 1,
                              !.shndx = IF kk.syms[y].sec # NULL
                                        THEN (IF kk.syms[y].sec \in Range(kk.osecs)
                                              THEN secidx(kk.syms[y].sec)
                                              ELSE kk.secs[kk.syms[y].sec].index)
                                        ELSE IF @ # SHN_ABS THEN SHN_UNDEF ELSE @]
                      ELSE kk.syms[y]]]

\* a plausible slip: sh_link and sh_info take each other's value
RebuildRelaHeaders_swapped(kk) ==
    LET symtab == find_section_by_name(kk, kk.osecs, s_symtab)
        relasecs == {s \in Range(kk.osecs) : is_rela_section(kk.secs[s])}
    IN [kk EXCEPT !.secs =
          [s \in DOMAIN kk.secs |->
              IF s \in relasecs
              THEN [kk.secs[s] EXCEPT !.info = kk.secs[symtab].index,
                                      !.link = kk.secs[kk.secs[s].base].index]
              ELSE kk.secs[s]]]

\* main(): sh_link and sh_info of every relocation section of the output
RebuildRelaHeaders(kk) ==
    LET symtab == find_section_by_name(kk, kk.osecs, s_symtab)
        relasecs == {s \in Range(kk.osecs) : is_rela_section(kk.secs[s])}
    IN IF relasecs # {} /\ symtab = NULL THEN Crash(kk)
       ELSE IF \E s \in relasecs : kk.secs[s].base \notin DOMAIN kk.secs THEN Crash(kk)
       ELSE [kk EXCEPT !.secs =
               [s \in DOMAIN kk.secs |->
                   IF s \in relasecs
                   THEN [kk.secs[s] EXCEPT !.link = kk.secs[symtab].index,
                                           !.info = kk.secs[kk.secs[s].base].index]
                   ELSE kk.secs[s]]]

-----------------------------------------------------------------------------
(* The inputs: one translation unit a.c, compiled before and after a change.   *)
(* A scenario says what the change is and which features the unit uses.        *)

MaxGroups == 2

Opt(c, seq) == IF c THEN seq ELSE <<>>

\* the symbol a relocation to function name refers to: the section symbol of a
\* local function's section, the function symbol of a global function
FuncRef(p, name) ==
    IF name = s_foo /\ p.fooBind = "LOCAL" THEN Cat(p_text, s_foo) ELSE name

TextSec(name, data, relas) ==
    SecD(Cat(p_text, name), "PROGBITS", {"ALLOC", "EXEC"}, data, 16, relas)

DataSec(name, data, align, relas) ==
    SecD(name, "PROGBITS", {"ALLOC", "WRITE"}, data, align, relas)

FileSymD ==
    [name |-> s_file, type |-> "FILE", bind |-> "LOCAL", size |-> 0, value |-> 0,
     hassec |-> FALSE, secname |-> s_empty, shndx |-> SHN_ABS]

GroupByte == <<"g1", "g2", "g3", "g4">>

\* the flag word of a section group; the words after it are section indices:
\* .text.foo is section 1 and .text.bar section 3 of every unit
GRP_COMDAT == 1

ObjectSecs(p, patched) ==
    LET cname == IF patched /\ p.static = "renum" THEN s_c9 ELSE s_c7
        hk == p.hooks \in {"same", "changed"} \/ (p.hooks \in {"new", "two"} /\ patched)
        hk2 == p.hooks = "two" /\ patched
        n == Len(p.groups)
    IN <<TextSec(s_foo,
                 IF patched /\ p.fooChg THEN <<"i1", "i2", "i3", "i9">>
                 ELSE <<"i1", "i2", "i3", "i4">>,
                 <<RelD(1, "PC32", -4, s_bar, 4)>>
                 \o Opt(p.data # "none", <<RelD(2, "R32S", 0, Cat(p_data, s_x), 0)>>)
                 \o Opt(p.static # "none", <<RelD(3, "R32S", 0, Cat(p_data, cname), 0)>>)
                 \o Opt(p.special \in {"func", "nosecsym"},
                        <<RelD(0, "R32S", 0, s_func1, 0)>>)),
         SecD(Cat(p_text, s_bar), "PROGBITS", {"ALLOC", "EXEC"},
              IF patched /\ p.barChg THEN <<"j1", "j2", "j9">> ELSE <<"j1", "j2">>,
              IF patched /\ p.secattr THEN 32 ELSE 16,
              <<RelD(1, "PC32", IF patched /\ p.relchg THEN -8 ELSE -4,
                     FuncRef(p, s_foo), 4)>>)>>
       \o Opt(patched /\ p.baz # "none",
              <<TextSec(s_baz, <<"k1">>, <<RelD(0, "PC32", -4, s_bar, 4)>>)>>)
       \o Opt(hk, <<TextSec(s_hk, IF patched /\ p.hooks = "changed" THEN <<"h9">>
                                  ELSE <<"h1">>, <<>>)>>)
       \o Opt(hk2, <<TextSec(s_hk2, <<"h2">>, <<>>)>>)
       \o Opt(p.data # "none",
              <<DataSec(Cat(p_data, s_x),
                        IF patched /\ p.objsize THEN <<"x1", "x2">>
                        ELSE IF patched /\ p.data = "changed" THEN <<"x9">> ELSE <<"x1">>,
                        4, <<>>)>>)
       \o Opt(p.static # "none", <<DataSec(Cat(p_data, cname), <<"c1">>, 4, <<>>)>>)
       \o <<SecD(s_str1_1, "PROGBITS", {"ALLOC", "MERGE", "STRINGS"},
                 IF (patched \/ p.strsame) /\ p.ignsec THEN p.ignname \o <<NUL>>
                 ELSE <<"s", NUL>>,
                 1, <<>>)>>
       \o Opt(n > 0,
              <<SecD(s_ex_table, "PROGBITS", {"ALLOC"},
                     [i \in 1..(8 * n) |-> GroupByte[((i - 1) \div 8) + 1]], 8,
                     [j \in 1..(2 * n) |->
                         IF j % 2 = 1
                         THEN RelD(4 * (j - 1), "PC32", 0,
                                   FuncRef(p, p.groups[(j + 1) \div 2]), 4)
                         ELSE RelD(4 * (j - 1), "R32S", 0, s_str1_1, 0)])>>)
       \o Opt(hk, <<DataSec(s_hooks_load, IF hk2 THEN <<"p", "q">> ELSE <<"p">>, 8,
                            <<RelD(0, "R64", 0, Cat(p_text, s_hk), 0)>>
                            \o Opt(hk2, <<RelD(8, "R64", 0, Cat(p_text, s_hk2), 0)>>))>>)
       \o Opt(patched /\ p.ign,
              <<SecD(s_ignore_functions, "PROGBITS", {"ALLOC"}, <<"p">>, 8,
                     <<RelD(0, "R64", 0, FuncRef(p, s_foo), 0)>>)>>)
       \o Opt(patched /\ p.ignsec,
              <<SecD(s_ignore_sections, "PROGBITS", {"ALLOC"}, <<"p">>, 8,
                     <<RelD(0, "R64", 0, s_str1_1, 0)>>)>>)
       \o Opt(p.debug,
              <<SecD(s_debug_info, "PROGBITS", {}, <<"d">>, 1,
                     <<RelD(0, "R64", 0, Cat(p_text, s_foo), 0),
                       RelD(8, "R64", 0, Cat(p_text, s_bar), 0)>>)>>)
       \o Opt(p.special \in {"func", "nosecsym"},
              <<SecD(Cat(p_rodata, s_func1), "PROGBITS", {"ALLOC"}, <<"f1">>, 1, <<>>)>>)
       \o Opt(p.special = "verbose",
              <<DataSec(s_verbose, <<"v1">>, 8, <<>>)>>)
       \o <<SecD(s_shstrtab, "STRTAB", {}, <<"t">>, 1, <<>>),
            SecD(s_symtab, "SYMTAB", {}, <<"t">>, 8, <<>>),
            SecD(s_strtab, "STRTAB", {}, <<"t">>, 1, <<>>)>>
       \o Opt(p.group # "none",
              <<SecD(s_group, "GROUP", {},
                     <<GRP_COMDAT, IF patched /\ p.group = "new" THEN 1 ELSE 3>>, 4, <<>>)>>)

SizeOfSec(secs, name) == secs[IndexOfName(secs, name, 1)].size

\* the symbol table: the file symbol, the locals, the section symbols, the globals
ObjectSyms(p, patched, secs) ==
    LET cname == IF patched /\ p.static = "renum" THEN s_c9 ELSE s_c7
        hk == p.hooks \in {"same", "changed"} \/ (p.hooks \in {"new", "two"} /\ patched)
        hk2 == p.hooks = "two" /\ patched
        Func(name, bind) ==
            SymD(name, "FUNC", bind, SizeOfSec(secs, Cat(p_text, name)), Cat(p_text, name))
        HasSecSym(d) ==
            /\ d.type = "PROGBITS"
            /\ ~(p.special = "nosecsym" /\ d.name = Cat(p_rodata, s_func1))
        withsym == SelectSeq(secs, HasSecSym)
    IN <<FileSymD>>
       \o Opt(p.fooBind = "LOCAL", <<Func(s_foo, "LOCAL")>>)
       \o Opt(patched /\ p.baz = "local", <<Func(s_baz, "LOCAL")>>)
       \o Opt(hk, <<Func(s_hk, "LOCAL")>>)
       \o Opt(hk2, <<Func(s_hk2, "LOCAL")>>)
       \o Opt(p.data # "none",
              <<SymD(s_x, "OBJECT", "LOCAL", SizeOfSec(secs, Cat(p_data, s_x)),
                     Cat(p_data, s_x))>>)
       \o Opt(p.static # "none", <<SymD(cname, "OBJECT", "LOCAL", 1, Cat(p_data, cname))>>)
       \o Opt(p.special \in {"func", "nosecsym"},
              <<SymD(s_func1, "OBJECT", "LOCAL", 1, Cat(p_rodata, s_func1))>>)
       \o [i \in 1..Len(withsym) |-> SecSymD(withsym[i].name)]
       \o Opt(p.fooBind = "GLOBAL", <<Func(s_foo, "GLOBAL")>>)
       \o <<Func(s_bar, "GLOBAL")>>
       \o Opt(patched /\ p.baz = "global", <<Func(s_baz, "GLOBAL")>>)
       \o Opt(hk, <<SymD(s_load_data, "OBJECT", "GLOBAL", 1, s_hooks_load)>>)

Object(p, patched) ==
    LET secs == ObjectSecs(p, patched)
    IN [secs |-> secs, syms |-> ObjectSyms(p, patched, secs)]

GroupLists == UNION {[1..n -> {s_foo, s_bar}] : n \in 0..MaxGroups}

Plain(fooChg, barChg, fooBind, groups) ==
    [fooChg |-> fooChg, barChg |-> barChg, fooBind |-> fooBind, groups |-> groups,
     baz |-> "none", hooks |-> "none", data |-> "none", ignsec |-> FALSE,
     static |-> "none", ign |-> FALSE, debug |-> FALSE, hdr |-> "ok",
     relchg |-> FALSE, group |-> "none", secattr |-> FALSE, objsize |-> FALSE,
     special |-> "none", strsame |-> FALSE, ignname |-> Cat(p_data, s_x)]

NumFeatures == 26

\* feature i switched on in scenario p; no feature for i = 0
WithFeature(p, i) ==
    CASE i = 1 -> [p EXCEPT !.baz = "global"]
      [] i = 2 -> [p EXCEPT !.baz = "local"]
      [] i = 3 -> [p EXCEPT !.hooks = "new"]
      [] i = 4 -> [p EXCEPT !.hooks = "same"]
      [] i = 5 -> [p EXCEPT !.hooks = "changed"]
      [] i = 6 -> [p EXCEPT !.data = "same"]
      [] i = 7 -> [p EXCEPT !.data = "changed"]
      [] i = 8 -> [p EXCEPT !.data = "same", !.ignsec = TRUE]
      [] i = 9 -> [p EXCEPT !.data = "changed", !.ignsec = TRUE]
      [] i = 10 -> [p EXCEPT !.static = "same"]
      [] i = 11 -> [p EXCEPT !.static = "renum"]
      [] i = 12 -> [p EXCEPT !.ign = TRUE]
      [] i = 13 -> [p EXCEPT !.debug = TRUE]
      [] i = 14 -> [p EXCEPT !.hdr = "machine"]
      [] i = 15 -> [p EXCEPT !.hdr = "phdr"]
      [] i = 16 -> [p EXCEPT !.relchg = TRUE]
      [] i = 17 -> [p EXCEPT !.group = "same"]
      [] i = 18 -> [p EXCEPT !.group = "new"]
      [] i = 19 -> [p EXCEPT !.secattr = TRUE]
      [] i = 20 -> [p EXCEPT !.data = "changed", !.objsize = TRUE]
      [] i = 21 -> [p EXCEPT !.special = "func"]
      [] i = 22 -> [p EXCEPT !.special = "nosecsym"]
      [] i = 23 -> [p EXCEPT !.special = "verbose"]
      [] i = 24 -> [p EXCEPT !.hooks = "two"]
      [] i = 25 -> [p EXCEPT !.data = "changed", !.ignsec = TRUE, !.strsame = TRUE]
      [] i = 26 -> [p EXCEPT !.ignsec = TRUE, !.ignname = Cat(p_rela, Cat(p_text, s_bar))]
      [] OTHER -> p

Cores == BOOLEAN \X BOOLEAN \X {"LOCAL", "GLOBAL"}

\* a unit uses at most two of the features at a time; a unit with an exception
\* table uses at most one of a new global, a new hook, an ignored function or
\* debug information besides
Scenarios ==
    {WithFeature(WithFeature(Plain(c[1], c[2], c[3], <<>>), fs[1]), fs[2]) :
        c \in Cores,
        fs \in {f \in (0..NumFeatures) \X (0..NumFeatures) : f[1] <= f[2]}}
    \cup
    {WithFeature(Plain(c[1], c[2], c[3], g), f) :
        c \in Cores, g \in GroupLists, f \in {0, 1, 3, 12, 13}}

\* both objects loaded: base ids from 1, patched ids from 51
Worlds(bd, pd, hdr) ==
    LET b == Load(bd, 0)
        q == Load(pd, 50)
    IN [secs |-> b.secs @@ q.secs, syms |-> b.syms @@ q.syms,
        bsecs |-> b.seclist, bsyms |-> b.symlist,
        psecs |-> q.seclist, psyms |-> q.symlist,
        osecs |-> <<>>, osyms |-> <<>>,
        freedsecs |-> <<>>, freedsyms |-> <<>>,
        strings |-> <<>>, funcs |-> <<>>, lookups |-> <<>>,
        hint |-> NULLSTR, err |-> 0, num_changed |-> 0, new_globals |-> 0,
        bmachine |-> "x86_64",
        pmachine |-> IF hdr = "machine" THEN "arm" ELSE "x86_64",
        bphnum |-> IF hdr = "phdr" THEN 1 ELSE 0,
        pphnum |-> IF hdr = "phdr" THEN 1 ELSE 0]

World(p) == Worlds(Object(p, FALSE), Object(p, TRUE), p.hdr)

-----------------------------------------------------------------------------
(* main(): one action per pass, in the order of the calls.  A pass that ends  *)
(* in ERROR or DIFF_FATAL ends the run with that exit status.                  *)

\* the external symbol table: what a lookup of each function name answers
NotFound == [found |-> FALSE, value |-> 0, size |-> 0]

LookupResults ==
    {NotFound} \cup {[found |-> TRUE, value |-> 4096, size |-> s] :
                        s \in {PATCH_INSN_SIZE - 1, PATCH_INSN_SIZE, PATCH_INSN_SIZE + 3}}

\* the names create-diff-object asks the table for
FuncNames(kk) == {kk.syms[y].name : y \in {z \in Range(kk.osyms) : IsChangedFunc(kk.syms[z])}}

LookupTables(kk) == [FuncNames(kk) -> LookupResults]

\* no CHANGED function and no NEW global with a section among the patched symbols
Quiet(kk) ==
    ~\E y \in Range(kk.psyms) :
        \/ kk.syms[y].type = "FUNC" /\ kk.syms[y].status = "CHANGED"
        \/ kk.syms[y].bind = "GLOBAL" /\ kk.syms[y].status = "NEW" /\ kk.syms[y].sec # NULL

\* hist.pre keeps the model as the special-section pass found it, hist.cmp the
\* section statuses as the comparison left them, hist.unordered the output
\* symbol list as xsplice_reorder_symbols found it, hist.unindexed the symbols
\* as xsplice_reindex_elements found them
Pass(from, to, k1) ==
    /\ k' = k1
    /\ pc' = IF k1.err # 0 THEN "done" ELSE to
    /\ rc' = IF k1.err # 0 THEN k1.err ELSE rc
    /\ hist' = [hist EXCEPT !.passes = IF k1.err # 0 THEN @ ELSE Append(@, from),
                            !.pre = IF from = "special" THEN k ELSE @,
                            !.unordered = IF from = "reorder" THEN k.osyms ELSE @,
                            !.unindexed = IF from = "reindex" THEN k.syms ELSE @,
                            !.verified = IF from = "verify"
                                         THEN [s \in Range(k.psecs) |-> k.secs[s]] ELSE @,
                            !.cmp = IF from = "compare" /\ k1.err = 0
                                    THEN [s \in Range(k1.psecs) |-> k1.secs[s].status]
                                    ELSE @]
    /\ UNCHANGED <<written, ms>>

CheckHeaders ==
    /\ pc = "headers"
    /\ Pass("headers", "grouped",
            IF k.bmachine # k.pmachine THEN DiffFatal(k)
            ELSE IF k.bphnum # 0 THEN DiffFatal(k)
            ELSE IF k.pphnum # 0 THEN DiffFatal(k)
            ELSE k)

MarkGroupedSections ==
    /\ pc = "grouped"
    /\ Pass("grouped", "replace", xsplice_mark_grouped_sections(k, k.psecs))

ReplaceSectionsSyms ==
    /\ pc = "replace"
    /\ Pass("replace", "rename",
            xsplice_replace_sections_syms(xsplice_replace_sections_syms(k, k.bsecs, k.bsyms),
                                          k.psecs, k.psyms))

RenameMangledFunctions ==
    /\ pc = "rename"
    /\ Pass("rename", "correlate", xsplice_rename_mangled_functions(k))

CorrelateElfs ==
    /\ pc = "correlate"
    /\ Pass("correlate", "statics", xsplice_correlate_elfs(k))

CorrelateStaticLocalVariables ==
    /\ pc = "statics"
    /\ Pass("statics", "ignored", xsplice_correlate_static_local_variables(k))

MarkIgnoredSections ==
    /\ pc = "ignored"
    /\ Pass("ignored", "compare", xsplice_mark_ignored_sections(k))

CompareCorrelatedElements ==
    /\ pc = "compare"
    /\ Pass("compare", "teardown_base", xsplice_compare_correlated_elements(k))

ElfTeardownBase ==
    /\ pc = "teardown_base"
    /\ Pass("teardown_base", "ignfuncs_same", TeardownBase(k))

MarkIgnoredFunctionsSame ==
    /\ pc = "ignfuncs_same"
    /\ Pass("ignfuncs_same", "ignsecs_same", xsplice_mark_ignored_functions_same(k))

MarkIgnoredSectionsSame ==
    /\ pc = "ignsecs_same"
    /\ Pass("ignsecs_same", "labels_same", xsplice_mark_ignored_sections_same(k))

MarkConstantLabelsSame ==
    /\ pc = "labels_same"
    /\ Pass("labels_same", "standard", xsplice_mark_constant_labels_same(k))

IncludeStandardElements ==
    /\ pc = "standard"
    /\ Pass("standard", "changed", xsplice_include_standard_elements(k))

IncludeChangedFunctions ==
    /\ pc = "changed"
    /\ Pass("changed", "debug", xsplice_include_changed_functions(k))

IncludeDebugSections ==
    /\ pc = "debug"
    /\ Pass("debug", "hooks", xsplice_include_debug_sections(k))

IncludeHookElements ==
    /\ pc = "hooks"
    /\ Pass("hooks", "globals", xsplice_include_hook_elements(k))

IncludeNewGlobals ==
    /\ pc = "globals"
    /\ Pass("globals", "decide", xsplice_include_new_globals(k))

\* if (!num_changed && !new_globals_exist) return 3;
Decide ==
    /\ pc = "decide"
    /\ hist' = [hist EXCEPT !.passes = Append(@, "decide"), !.decided = TRUE,
                            !.quiet = Quiet(k),
                            !.unselected = \E s \in Range(k.psecs) :
                                              /\ k.secs[s].status = "CHANGED"
                                              /\ ~k.secs[s].include]
    /\ IF k.num_changed = 0 /\ k.new_globals = 0
       THEN pc' = "done" /\ rc' = 3
       ELSE pc' = "special" /\ rc' = rc
    /\ UNCHANGED <<k, written, ms>>

ProcessSpecialSections ==
    /\ pc = "special"
    /\ Pass("special", "verify", xsplice_process_special_sections(k))

VerifyPatchability ==
    /\ pc = "verify"
    /\ Pass("verify", "migrate", xsplice_verify_patchability(k))

MigrateIncludedElements ==
    /\ pc = "migrate"
    /\ Pass("migrate", "teardown_patched", xsplice_migrate_included_elements(k))

ElfTeardownPatched ==
    /\ pc = "teardown_patched"
    /\ Pass("teardown_patched", "hint", TeardownPatched(k))

SearchHint ==
    /\ pc = "hint"
    /\ Pass("hint", "strings",
            LET hint == FindHint(k, k.osyms)
            IN IF hint = NULLSTR THEN Error(k) ELSE [k EXCEPT !.hint = hint])

CreateStringsElements ==
    /\ pc = "strings"
    /\ Pass("strings", "patches", xsplice_create_strings_elements(k))

CreatePatchesSections ==
    \E table \in LookupTables(k), resolve \in BOOLEAN :
        /\ pc = "patches"
        /\ LET k1 == xsplice_create_patches_sections(k, table, k.hint, resolve)
           IN /\ k' = k1
              /\ pc' = IF k1.err # 0 THEN "done" ELSE "build_strings"
              /\ rc' = IF k1.err # 0 THEN k1.err ELSE rc
              /\ hist' = IF k1.err # 0 THEN [hist EXCEPT !.resolve = resolve]
                         ELSE [hist EXCEPT !.resolve = resolve,
                                           !.passes = Append(@, "patches")]
        /\ UNCHANGED <<written, ms>>

BuildStringsSectionData ==
    /\ pc = "build_strings"
    /\ Pass("build_strings", "rename_locals", xsplice_build_strings_section_data(k))

RenameLocalSymbols ==
    /\ pc = "rename_locals"
    /\ Pass("rename_locals", "reorder", xsplice_rename_local_symbols(k, k.hint))

ReorderSymbols ==
    /\ pc = "reorder"
    /\ Pass("reorder", "reindex", xsplice_reorder_symbols(k))

ReindexElements ==
    /\ pc = "reindex"
    /\ Pass("reindex", "rela_headers", xsplice_reindex_elements(k))

RebuildRelaSections ==
    /\ pc = "rela_headers"
    /\ Pass("rela_headers", "write", RebuildRelaHeaders(k))

\* xsplice_write_output_elf, then return 0
WriteOutputElf ==
    /\ pc = "write"
    /\ written' = written + 1
    /\ pc' = "done"
    /\ rc' = 0
    /\ hist' = [hist EXCEPT !.passes = Append(@, "write")]
    /\ UNCHANGED <<k, ms>>

History(p, w, same) ==
    [scen |-> p, passes |-> <<>>, decided |-> FALSE, quiet |-> FALSE,
     pre |-> w, cmp |-> <<>>, resolve |-> FALSE, unordered |-> <<>>,
     unindexed |-> <<>>, verified |-> <<>>, unselected |-> FALSE,
     identical |-> same]

Init ==
    \E p \in Scenarios :
        /\ pc = "headers"
        /\ k = World(p)
        /\ rc = -1
        /\ written = 0
        /\ hist = History(p, World(p),
                          Object(p, FALSE) = Object(p, TRUE) /\ p.hdr # "machine")
        /\ ms = <<>>

Next ==
    \/ CheckHeaders
    \/ MarkGroupedSections
    \/ ReplaceSectionsSyms
    \/ RenameMangledFunctions
    \/ CorrelateElfs
    \/ CorrelateStaticLocalVariables
    \/ MarkIgnoredSections
    \/ CompareCorrelatedElements
    \/ ElfTeardownBase
    \/ MarkIgnoredFunctionsSame
    \/ MarkIgnoredSectionsSame
    \/ MarkConstantLabelsSame
    \/ IncludeStandardElements
    \/ IncludeChangedFunctions
    \/ IncludeDebugSections
    \/ IncludeHookElements
    \/ IncludeNewGlobals
    \/ Decide
    \/ ProcessSpecialSections
    \/ VerifyPatchability
    \/ MigrateIncludedElements
    \/ ElfTeardownPatched
    \/ SearchHint
    \/ CreateStringsElements
    \/ CreatePatchesSections
    \/ BuildStringsSectionData
    \/ RenameLocalSymbols
    \/ ReorderSymbols
    \/ ReindexElements
    \/ RebuildRelaSections
    \/ WriteOutputElf

Spec == Init /\ [][Next]_vars

-----------------------------------------------------------------------------
(* Properties of a run *)

Done == pc = "done"

AllPasses ==
    <<"headers", "grouped", "replace", "rename", "correlate", "statics", "ignored",
      "compare", "teardown_base", "ignfuncs_same", "ignsecs_same", "labels_same",
      "standard", "changed", "debug", "hooks", "globals", "decide", "special", "verify",
      "migrate", "teardown_patched", "hint", "strings", "patches", "build_strings",
      "rename_locals", "reorder", "reindex", "rela_headers", "write">>

LookupOk(l) == l.res.found /\ l.res.size >= PATCH_INSN_SIZE

\* C2: the writer runs at most once, and only at the end of a run in which
\* every pass before it completed without error and every lookup answered with
\* a function of at least PATCH_INSN_SIZE bytes; a run that ends with a fatal
\* error, a failed or too-small lookup included, has written nothing
C2_WriterLast ==
    /\ written <= 1
    /\ written = 1 => /\ Done /\ rc = 0 /\ k.err = 0
                      /\ hist.passes = AllPasses
                      /\ \A i \in 1..Len(k.lookups) : LookupOk(k.lookups[i])
    /\ Done /\ rc # 0 => written = 0
    /\ (\E i \in 1..Len(k.lookups) : ~LookupOk(k.lookups[i])) => written = 0 /\ rc = 1

C2_Witness == written = 1 /\ Len(k.lookups) >= 2

InclusionClosure(kk) ==
    \A s \in Range(kk.psecs) :
        is_rela_section(kk.secs[s]) /\ kk.secs[s].include =>
            \A i \in 1..Len(kk.secs[s].relas) :
                /\ kk.secs[s].relas[i].sym # NULL
                /\ kk.syms[kk.secs[s].relas[i].sym].include

\* C3: when the included elements are about to be migrated, every relocation
\* left in an included relocation section targets an included symbol
C3_InclusionClosure == pc = "migrate" => InclusionClosure(k)

-----------------------------------------------------------------------------
(* Section status *)

\* a section or symbol record, also after its model was torn down
SecOf(kk, s) == IF s \in DOMAIN kk.secs THEN kk.secs[s] ELSE kk.freedsecs[s]
SymOf(kk, y) == IF y \in DOMAIN kk.syms THEN kk.syms[y] ELSE kk.freedsyms[y]

RelaSame(kk, r1, r2) ==
    /\ r1.type = r2.type
    /\ r1.offset = r2.offset
    /\ r1.addend = r2.addend
    /\ SymOf(kk, r1.sym).name = SymOf(kk, r2.sym).name

\* size, bytes or relocation list of patched section s differ from its twin's
Differs(kk, s) ==
    LET a == kk.secs[s]
        b == SecOf(kk, a.twin)
    IN \/ a.size # b.size
       \/ Len(a.data) # Len(b.data)
       \/ IF is_rela_section(a)
          THEN \/ Len(a.relas) # Len(b.relas)
               \/ \E i \in 1..Len(a.relas) : ~RelaSame(kk, a.relas[i], b.relas[i])
          ELSE a.type # "NOBITS" /\ a.data # b.data

StatusByComparison(kk, s) ==
    IF kk.secs[s].twin = NULL THEN "NEW"
    ELSE IF Differs(kk, s) THEN "CHANGED"
    ELSE "SAME"

StatusWindow ==
    {"teardown_base", "ignfuncs_same", "ignsecs_same", "labels_same", "standard",
     "changed", "debug", "hooks", "globals", "decide", "special", "verify"}

\* C5 as stated: from the end of the comparison until the patchability check,
\* a patched section is NEW iff it has no twin, CHANGED iff it differs from its
\* twin in size, bytes or relocations, SAME otherwise
C5_AsStated ==
    pc \in StatusWindow =>
        \A s \in Range(k.psecs) : k.secs[s].status = StatusByComparison(k, s)

\* C5, as the code keeps it: right after the comparison every patched section
\* is NEW iff it has no twin, CHANGED iff it differs from its twin in size,
\* bytes or relocations, SAME otherwise; from then until the patchability
\* check a status only ever moves to SAME (an ignore directive, a special
\* section with no group kept), whatever the section's contents
C5_SectionStatus ==
    /\ pc = "teardown_base" =>
          \A s \in Range(k.psecs) : k.secs[s].status = StatusByComparison(k, s)
    /\ pc \in StatusWindow =>
          \A s \in Range(k.psecs) : k.secs[s].status \in {hist.cmp[s], "SAME"}

C5_Witness ==
    /\ pc = "verify"
    /\ \E s \in Range(k.psecs) : k.secs[s].status = "SAME" /\ hist.cmp[s] = "CHANGED"
    /\ \E s \in Range(k.psecs) : k.secs[s].status = "CHANGED"
    /\ \E s \in Range(k.psecs) : k.secs[s].status = "NEW"

\* s is SAME and one of its relocations targets a symbol that is not SAME and
\* lives in a section that is CHANGED or NEW
RefersToChanged(kk, s) ==
    /\ ~is_rela_section(kk.secs[s])
    /\ kk.secs[s].status = "SAME"
    /\ kk.secs[s].rela # NULL
    /\ \E i \in 1..Len(kk.secs[kk.secs[s].rela].relas) :
          LET t == kk.syms[kk.secs[kk.secs[s].rela].relas[i].sym]
          IN /\ t.sec # NULL
             /\ kk.secs[t.sec].status \in {"CHANGED", "NEW"}
             /\ t.status # "SAME"

-----------------------------------------------------------------------------
(* Special sections and the patch table *)

FixedSpecials ==
    {s_bug_frames_0, s_bug_frames_1, s_bug_frames_2, s_bug_frames_3, s_ex_table,
     s_altinstructions}

FixedGroupSize(name) ==
    IF name = s_bug_frames_3 THEN 16 ELSE IF name = s_altinstructions THEN 12 ELSE 8

\* group g (from 0) of a special section holds a relocation to a function whose
\* section was included when the special-section pass began
KeptGroup(pre, R, g, size) ==
    \E i \in 1..Len(R) :
        /\ R[i].offset >= g * size
        /\ R[i].offset < (g + 1) * size
        /\ pre.syms[R[i].sym].type = "FUNC"
        /\ pre.secs[pre.syms[R[i].sym].sec].include

\* the kept groups of data D with relocations R, packed: acc = [data, relas]
RECURSIVE Compact(_, _, _, _, _, _, _)
Compact(pre, D, R, g, n, size, acc) ==
    IF g >= n THEN acc
    ELSE IF ~KeptGroup(pre, R, g, size) THEN Compact(pre, D, R, g + 1, n, size, acc)
    ELSE LET In(r) == r.offset >= g * size /\ r.offset < (g + 1) * size
             mine == SelectSeq(R, In)
         IN Compact(pre, D, R, g + 1, n, size,
                    [data |-> acc.data \o SubSeq(D, g * size + 1, (g + 1) * size),
                     relas |-> acc.relas \o
                               [i \in 1..Len(mine) |->
                                   [mine[i] EXCEPT !.offset = @ - g * size + Len(acc.data)]]])

Compacted(kk, pre, s) ==
    LET r == pre.secs[s].rela
        size == FixedGroupSize(pre.secs[s].name)
        c == Compact(pre, pre.secs[s].data, pre.secs[r].relas, 0,
                     Len(pre.secs[s].data) \div size, size, [data |-> <<>>, relas |-> <<>>])
    IN IF c.data = <<>>
       THEN ~kk.secs[s].include /\ ~kk.secs[r].include
       ELSE /\ kk.secs[s].include /\ kk.secs[r].include
            /\ kk.secs[s].data = c.data
            /\ kk.secs[r].relas = c.relas

ChangedFuncs(kk, list) ==
    LET Is(y) == kk.syms[y].type = "FUNC" /\ kk.syms[y].status = "CHANGED"
    IN SelectSeq(list, Is)

\* the name of function y in the string pool
PoolName(kk, y) ==
    IF kk.syms[y].bind = "LOCAL" THEN Cat(Cat(k.hint, s_hash), kk.syms[y].name)
    ELSE kk.syms[y].name

RECURSIVE PoolOffset(_, _, _)
PoolOffset(kk, fs, i) ==
    IF i <= 1 THEN 0 ELSE PoolOffset(kk, fs, i - 1) + Len(PoolName(kk, fs[i - 1])) + 1

\* .xsplice.funcs and its relocation section hold one entry for each function
\* of fs (symbols of model kk), in that order
TableMatches(kk, fs) ==
    LET sec == find_section_by_name(k, k.osecs, s_xsplice_funcs)
        relas == k.secs[k.secs[sec].rela].relas
        strsec == find_section_by_name(k, k.osecs, s_xsplice_strings)
        strsyms == {y \in Range(k.osyms) : k.syms[y].type = "SECTION" /\ k.syms[y].sec = strsec}
    IN /\ Len(k.funcs) = Len(fs)
       /\ k.secs[sec].size = Len(fs) * SizeofPatchFunc
       /\ Len(relas) = 2 * Len(fs)
       /\ Len(k.lookups) = Len(fs)
       /\ \A i \in 1..Len(fs) :
             /\ i <= Len(k.funcs) /\ i <= Len(k.lookups) /\ 2 * i <= Len(relas)
             /\ k.lookups[i].name = kk.syms[fs[i]].name
             /\ k.funcs[i] = [old_addr |-> IF hist.resolve THEN k.lookups[i].res.value ELSE 0,
                              old_size |-> k.lookups[i].res.size,
                              new_addr |-> 0,
                              new_size |-> kk.syms[fs[i]].size]
             /\ relas[2 * i - 1] = NewRela((i - 1) * SizeofPatchFunc, "R64", 0, fs[i],
                                           NULLSTR, 0)
             /\ relas[2 * i].offset = (i - 1) * SizeofPatchFunc + OffsetofName
             /\ relas[2 * i].type = "R64"
             /\ relas[2 * i].addend = PoolOffset(kk, fs, i)
             /\ relas[2 * i].sym \in strsyms
       /\ k.strings = [i \in 1..Len(fs) |-> PoolName(kk, fs[i])]

\* C9 as stated: one entry for each CHANGED function of the patched input
C9_AsStated ==
    pc = "build_strings" => TableMatches(hist.pre, ChangedFuncs(hist.pre, hist.pre.psyms))

\* C9, as the code keeps it: .xsplice.funcs has one entry for each CHANGED
\* function symbol of the output, in symbol order, these being the CHANGED
\* functions of the patched input whose symbol is still included (the hook
\* pass strips the symbol of a hook function); entry i has new_size the
\* symbol's st_size, new_addr 0, old_size the looked-up size, old_addr the
\* looked-up address under --resolve and 0 otherwise, and two R_X86_64_64
\* relocations: at i*sizeof(entry) to the function with addend 0, and at the
\* name field to the .xsplice.strings section symbol with addend the pool
\* offset of the name (hint#name for a local, the name for a global)
C9_PatchTable ==
    pc = "build_strings" =>
        /\ TableMatches(k, ChangedFuncs(k, k.osyms))
        /\ LET Kept(y) == y \in Range(k.osyms)
           IN ChangedFuncs(k, k.osyms)
                 = SelectSeq(ChangedFuncs(hist.pre, hist.pre.psyms), Kept)

C9_Witness ==
    /\ pc = "build_strings"
    /\ Len(k.funcs) = 2
    /\ hist.resolve
    /\ hist.scen.fooBind = "LOCAL"
    /\ k.funcs[1].old_size # k.funcs[1].new_size

-----------------------------------------------------------------------------
(* xsplice_mangled_strcmp on its own: two names are built up character by      *)
(* character and then compared, both ways round and each with itself           *)

MaxNameLen == 3

MangledAlphabet == {"a", ".", "1", "2"}

Names == UNION {[1..n -> MangledAlphabet] : n \in 0..MaxNameLen}

InitMangled ==
    /\ pc = "ms_args"
    /\ ms = [s1 |-> <<>>, s2 |-> <<>>, r12 |-> -1, r21 |-> -1, r11 |-> -1]
    /\ k = <<>>
    /\ rc = -1
    /\ written = 0
    /\ hist = <<>>

ExtendFirstName ==
    /\ pc = "ms_args"
    /\ Len(ms.s1) < MaxNameLen
    /\ \E c \in MangledAlphabet : ms' = [ms EXCEPT !.s1 = Append(@, c)]
    /\ UNCHANGED <<pc, k, rc, written, hist>>

ExtendSecondName ==
    /\ pc = "ms_args"
    /\ Len(ms.s2) < MaxNameLen
    /\ \E c \in MangledAlphabet : ms' = [ms EXCEPT !.s2 = Append(@, c)]
    /\ UNCHANGED <<pc, k, rc, written, hist>>

CallMangledStrcmp ==
    /\ pc = "ms_args"
    /\ ms' = [ms EXCEPT !.r12 = xsplice_mangled_strcmp(ms.s1, ms.s2),
                        !.r21 = xsplice_mangled_strcmp(ms.s2, ms.s1),
                        !.r11 = xsplice_mangled_strcmp(ms.s1, ms.s1)]
    /\ pc' = "ms_ret"
    /\ UNCHANGED <<k, rc, written, hist>>

NextMangled == ExtendFirstName \/ ExtendSecondName \/ CallMangledStrcmp

SpecMangled == InitMangled /\ [][NextMangled]_vars

RECURSIVE DropDigits(_)
DropDigits(s) == IF s # <<>> /\ isdigit(Head(s)) THEN DropDigits(Tail(s)) ELSE s

\* s with every maximal run of '.' and one or more digits replaced by one marker
RECURSIVE Normalised(_)
Normalised(s) ==
    IF s = <<>> THEN <<>>
    ELSE IF Head(s) = "." /\ Len(s) >= 2 /\ isdigit(s[2])
         THEN <<"<.N>">> \o Normalised(DropDigits(Tail(s)))
         ELSE <<Head(s)>> \o Normalised(Tail(s))

\* C7: xsplice_mangled_strcmp(s1, s2) is 0 exactly when s1 and s2 are equal
\* once every maximal run of '.' followed by one or more digits is replaced
\* by one marker, and 1 otherwise; it is reflexive, symmetric and transitive
C7_MangledEquality ==
    pc = "ms_ret" =>
        /\ ms.r12 \in {0, 1}
        /\ ms.r12 = 0 <=> Normalised(ms.s1) = Normalised(ms.s2)
        /\ ms.r11 = 0
        /\ ms.r12 = 0 <=> ms.r21 = 0
        /\ ms.r12 = 0 =>
              \A s3 \in Names :
                  xsplice_mangled_strcmp(ms.s2, s3) = 0
                  => xsplice_mangled_strcmp(ms.s1, s3) = 0

\* two names that differ only in the digits after a '.' compare equal
C7_Witness ==
    /\ pc = "ms_ret"
    /\ ms.s1 = <<"a", ".", "1">>
    /\ ms.s2 = <<"a", ".", "2">>
    /\ ms.r12 = 0

-----------------------------------------------------------------------------
(* Correlation on its own: units whose local objects may share a name.  main() *)
(* runs as far as the correlation of the static locals.                        *)

MaxCorrSyms == 2

CorrNames == {s_x, s_c7, s_c9}

CorrLists == UNION {[1..n -> CorrNames] : n \in 0..MaxCorrSyms}

\* a unit with function foo and the local objects of list, all in .data, each
\* referenced from foo
CorrObject(list) ==
    LET secs == <<TextSec(s_foo, <<"i1", "i2", "i3", "i4">>,
                          [i \in 1..Len(list) |-> RelD(i - 1, "R32S", 0, list[i], 0)]),
                  DataSec(p_dotdata, <<"d1", "d2">>, 4, <<>>),
                  SecD(s_shstrtab, "STRTAB", {}, <<"t">>, 1, <<>>),
                  SecD(s_symtab, "SYMTAB", {}, <<"t">>, 8, <<>>),
                  SecD(s_strtab, "STRTAB", {}, <<"t">>, 1, <<>>)>>
    IN [secs |-> secs,
        syms |-> <<FileSymD>>
                 \o [i \in 1..Len(list) |-> SymD(list[i], "OBJECT", "LOCAL", 1, p_dotdata)]
                 \o <<SecSymD(Cat(p_text, s_foo)), SecSymD(p_dotdata),
                      SymD(s_foo, "FUNC", "GLOBAL", 4, Cat(p_text, s_foo))>>]

InitCorr ==
    \E b \in CorrLists, q \in CorrLists :
        /\ pc = "headers"
        /\ k = Worlds(CorrObject(b), CorrObject(q), "ok")
        /\ rc = -1
        /\ written = 0
        /\ hist = History([base |-> b, patched |-> q],
                          Worlds(CorrObject(b), CorrObject(q), "ok"), b = q)
        /\ ms = <<>>

NextCorr ==
    \/ CheckHeaders
    \/ MarkGroupedSections
    \/ ReplaceSectionsSyms
    \/ RenameMangledFunctions
    \/ CorrelateElfs
    \/ CorrelateStaticLocalVariables

SpecCorr == InitCorr /\ [][NextCorr]_vars

TwinSymmetry(tab, blist, plist) ==
    \A a \in Range(blist) \cup Range(plist) :
        tab[a].twin # NULL =>
            /\ tab[a].twin # a
            /\ tab[tab[a].twin].twin = a
            /\ (a \in Range(blist)) # (tab[a].twin \in Range(blist))

\* C4: once sections, symbols and static locals are correlated, the twin of
\* the twin of every section and symbol is the element itself, twins belong
\* to different models and nothing is its own twin
C4_TwinSymmetry ==
    pc = "ignored" =>
        /\ TwinSymmetry(k.secs, k.bsecs, k.psecs)
        /\ TwinSymmetry(k.syms, k.bsyms, k.psyms)

-----------------------------------------------------------------------------
(* xsplice_reorder_symbols on its own: the output symbol list is the null       *)
(* symbol and up to MaxSyms symbols of any kind, in any order                   *)

MaxSyms == 3

SymKinds ==
    {NewSym(s_file, "FILE", "LOCAL", 0, 0, SHN_ABS),
     NewSym(s_foo, "FUNC", "LOCAL", 4, 0, SHN_UNDEF),
     NewSym(s_x, "OBJECT", "LOCAL", 1, 0, SHN_UNDEF),
     NewSym(p_dotdata, "SECTION", "LOCAL", 0, 0, SHN_UNDEF),
     NewSym(s_bar, "FUNC", "GLOBAL", 4, 0, SHN_UNDEF),
     NewSym(s_load_data, "OBJECT", "GLOBAL", 1, 0, SHN_UNDEF),
     NewSym(s_baz, "NOTYPE", "GLOBAL", 0, 0, SHN_UNDEF)}

SymLists == UNION {[1..n -> SymKinds] : n \in 0..MaxSyms}

ReorderWorld(list) ==
    LET all == <<NewSym(s_empty, "NOTYPE", "LOCAL", 0, 0, SHN_UNDEF)>> \o list
    IN [Worlds([secs |-> <<>>, syms |-> <<>>], [secs |-> <<>>, syms |-> <<>>], "ok")
          EXCEPT !.syms = [y \in 201..(200 + Len(all)) |-> all[y - 200]],
                 !.osyms = [i \in 1..Len(all) |-> 200 + i]]

InitReorder ==
    \E list \in SymLists :
        /\ pc = "reorder"
        /\ k = ReorderWorld(list)
        /\ rc = -1
        /\ written = 0
        /\ hist = History(list, ReorderWorld(list), FALSE)
        /\ ms = <<>>

NextReorder == ReorderSymbols \/ ReindexElements

SpecReorder == InitReorder /\ [][NextReorder]_vars

\* the bucket the symbol belongs to: the null symbol, file symbols, local
\* functions, the other locals, globals
Bucket(sym) ==
    IF sym.name = s_empty THEN 1
    ELSE IF sym.type = "FILE" THEN 2
    ELSE IF sym.bind = "LOCAL" /\ sym.type = "FUNC" THEN 3
    ELSE IF sym.bind = "LOCAL" THEN 4
    ELSE 5

\* C10: after xsplice_reorder_symbols the output symbol list is a permutation
\* of what it was, with the null symbol first, then the file symbols, then
\* the local functions, then the other locals, then the globals, the symbols
\* of a bucket in their original order; every local is ahead of every global
C10_Reordered ==
    pc \in {"reindex", "rela_headers"} /\ hist.unordered # <<>> =>
        LET a == hist.unordered
            b == k.osyms
        IN /\ Len(b) = Len(a)
           /\ Range(b) = Range(a)
           /\ \A i, j \in 1..Len(b) : i # j => b[i] # b[j]
           /\ Bucket(k.syms[b[1]]) = 1
           /\ \A i, j \in 1..Len(b) :
                 i < j =>
                    /\ Bucket(k.syms[b[i]]) <= Bucket(k.syms[b[j]])
                    /\ Bucket(k.syms[b[i]]) = Bucket(k.syms[b[j]])
                       => PosOf(a, b[i]) < PosOf(a, b[j])
                    /\ ~(k.syms[b[i]].bind = "GLOBAL" /\ k.syms[b[j]].bind = "LOCAL")

\* a local function that followed a global and another local is moved ahead
\* of both
C10_Witness ==
    /\ pc = "reindex"
    /\ Len(hist.unordered) = 4
    /\ k.syms[hist.unordered[2]].bind = "GLOBAL"
    /\ k.syms[hist.unordered[3]].type = "OBJECT"
    /\ k.syms[hist.unordered[3]].bind = "LOCAL"
    /\ Bucket(k.syms[hist.unordered[4]]) = 3
    /\ k.osyms[2] = hist.unordered[4]

-----------------------------------------------------------------------------
(* The output model *)

\* C11: when the output is written, the output sections carry the indices
\* 1..N in list order and the output symbols 0..M-1 in list order; the
\* st_shndx of a symbol is the index of its section when it has one (a
\* section of the output), SHN_ABS when it was SHN_ABS, SHN_UNDEF otherwise;
\* sh_link of every relocation section is the index of .symtab and sh_info
\* the index of its base section, which is a section of the output
C11_Reindexed ==
    pc = "write" =>
        /\ \A i \in 1..Len(k.osecs) : k.secs[k.osecs[i]].index = i
        /\ \A i \in 1..Len(k.osyms) : k.syms[k.osyms[i]].index = i - 1
        /\ \A y \in Range(k.osyms) :
              IF k.syms[y].sec # NULL
              THEN /\ k.syms[y].sec \in Range(k.osecs)
                   /\ k.syms[y].shndx = k.secs[k.syms[y].sec].index
              ELSE k.syms[y].shndx = IF hist.unindexed[y].shndx = SHN_ABS
                                     THEN SHN_ABS ELSE SHN_UNDEF
        /\ \A s \in Range(k.osecs) :
              is_rela_section(k.secs[s]) =>
                 /\ \E t \in Range(k.osecs) :
                       k.secs[t].name = s_symtab /\ k.secs[s].link = k.secs[t].index
                 /\ k.secs[s].base \in Range(k.osecs)
                 /\ k.secs[s].info = k.secs[k.secs[s].base].index

\* an output with a file symbol (SHN_ABS), an undefined symbol that had a
\* section index before, a symbol with a section and two relocation sections
C11_Witness ==
    /\ pc = "write"
    /\ \E y \in Range(k.osyms) : k.syms[y].shndx = SHN_ABS
    /\ \E y \in Range(k.osyms) :
          k.syms[y].sec = NULL /\ k.syms[y].shndx = SHN_UNDEF
          /\ hist.unindexed[y].shndx \notin {SHN_UNDEF, SHN_ABS}
    /\ \E y \in Range(k.osyms) : k.syms[y].sec # NULL /\ k.syms[y].shndx > 1
    /\ Cardinality({s \in Range(k.osecs) : is_rela_section(k.secs[s])}) >= 2

-----------------------------------------------------------------------------
(* C12: what the writer may rely on                                          *)

\* the sections of the patched model as xsplice_verify_patchability saw them
Verified == {hist.verified[s] : s \in DOMAIN hist.verified}

\* C12: whenever the output writer has run, the patched model at verification
\* time had every CHANGED section included, no grouped section with a status
\* other than SAME, no NEW SHT_GROUP section, and no included .data* or .bss*
\* section other than NEW ones and .data.unlikely.
C12_Patchable ==
    written = 1 =>
        /\ "verify" \in Range(hist.passes)
        /\ \A sec \in Verified :
              /\ sec.status = "CHANGED" => sec.include
              /\ sec.grouped => sec.status = "SAME"
              /\ sec.type = "GROUP" => sec.status # "NEW"
              /\ (sec.include /\ (HasPrefix(sec.name, p_dotdata)
                                    \/ HasPrefix(sec.name, p_dotbss)))
                    => (sec.status = "NEW" \/ sec.name = s_data_unlikely)

C12_Witness ==
    /\ written = 1
    /\ \E sec \in Verified : sec.status = "CHANGED" /\ sec.include
    /\ \E sec \in Verified : sec.grouped /\ sec.status = "SAME"
    /\ \E sec \in Verified : sec.type = "GROUP" /\ sec.status = "SAME"

-----------------------------------------------------------------------------
(* C13: unsupported differences                                              *)

\* the run compares two objects with a difference the tool does not support:
\* different ELF headers, a program header, a correlated section (.text.bar)
\* whose alignment differs, a correlated object (x) whose size differs, or a
\* CHANGED section that the inclusion passes did not select
UnsupportedDiff ==
    \/ hist.scen.hdr # "ok"
    \/ hist.scen.secattr
    \/ hist.scen.objsize
    \/ hist.unselected

\* C13: a run with an unsupported difference ends with exit code 2, never
\* with 0 or 3.
C13_UnsupportedFatal == (Done /\ UnsupportedDiff) => rc \notin {0, 3}

\* the same for the differences that are found before the inclusion passes
C13_EarlyFatal ==
    (Done /\ (hist.scen.hdr # "ok" \/ hist.scen.secattr \/ hist.scen.objsize))
        => rc \in {1, 2}

-----------------------------------------------------------------------------
(* C14: references of the output model                                       *)

Migrated == "migrate" \in Range(hist.passes)

SecRefOk(s) == s = NULL \/ s \in Range(k.osecs)

SymRefOk(y) == y = NULL \/ y \in Range(k.osyms)

\* the two links that xsplice_migrate_included_elements breaks
ClearedLinks ==
    /\ \A s \in Range(k.osecs) : is_rela_section(k.secs[s]) \/ SymRefOk(k.secs[s].secsym)
    /\ \A y \in Range(k.osyms) : SecRefOk(k.syms[y].sec)

PartnerLinks ==
    \A s \in Range(k.osecs) : SecRefOk(k.secs[s].base) /\ SecRefOk(k.secs[s].rela)

BundleLinks == \A s \in Range(k.osecs) : SymRefOk(k.secs[s].sym)

TargetLinks ==
    \A s \in Range(k.osecs) :
        \A i \in 1..Len(k.secs[s].relas) : SymRefOk(k.secs[s].relas[i].sym)

TwinLinks ==
    /\ \A s \in Range(k.osecs) : SecRefOk(k.secs[s].twin)
    /\ \A y \in Range(k.osyms) : SymRefOk(k.syms[y].twin)

\* C14: after migration every reference held by a section, symbol or
\* relocation of the output model (symbol's section, section symbol, bundled
\* symbol, base/rela partner, relocation target, twin) is null or leads to an
\* element of the output model.
C14_NoStaleReference ==
    Migrated => ClearedLinks /\ PartnerLinks /\ BundleLinks /\ TargetLinks /\ TwinLinks

-----------------------------------------------------------------------------
(* C15: special statics                                                      *)

Correlated == "statics" \in Range(hist.passes)

\* the sections and symbols of both objects, wherever they are by now
AllSecs == {k.secs[s] : s \in DOMAIN k.secs}

AllSyms == {k.syms[y] : y \in DOMAIN k.syms}

\* the section symbol is __verbose, or the bundled symbol is a special static
SpecialSection(sec) ==
    \/ sec.secsym # NULL /\ k.syms[sec.secsym].name = s_verbose
    \/ sec.sym # NULL /\ SpecialName(k.syms[sec.sym])

\* C15: after the correlation passes no local object named like a special
\* static has a twin
C15_SpecialSymbols ==
    Correlated => \A sym \in AllSyms : SpecialName(sym) => sym.twin = NULL

\* the sections of C15 hold when every such section has a section symbol
C15_WithSectionSymbols ==
    (Correlated /\ hist.scen.special # "nosecsym") =>
        \A sec \in AllSecs :
            /\ (~is_rela_section(sec) /\ SpecialSection(sec)) => sec.twin = NULL
            /\ (is_rela_section(sec) /\ SpecialSection(k.secs[sec.base])) => sec.twin = NULL

\* C15: after the correlation passes no special static has a twin, and neither
\* has a section whose section symbol is __verbose or whose bundled symbol is a
\* special static, nor the relocation section of such a section.
C15_SpecialStatics ==
    Correlated =>
        /\ \A sym \in AllSyms : SpecialName(sym) => sym.twin = NULL
        /\ \A sec \in AllSecs :
              /\ (~is_rela_section(sec) /\ SpecialSection(sec)) => sec.twin = NULL
              /\ (is_rela_section(sec) /\ SpecialSection(k.secs[sec.base]))
                    => sec.twin = NULL

-----------------------------------------------------------------------------
(* Renaming on its own: units that hold up to MaxClones symbols named like     *)
(* clones of g, functions bundled in .text.<name> with a .rodata.<name>        *)
(* sibling or objects bundled in .data.<name>.  main() runs as far as          *)
(* xsplice_rename_mangled_functions.                                           *)

MaxClones == 2

CloneKinds == {s_g_isra_1, s_g_isra_2} \X {"FUNC", "OBJECT"}

CloneLists ==
    {l \in UNION {[1..n -> CloneKinds] : n \in 0..MaxClones} :
        \A i, j \in DOMAIN l : i # j => l[i] # l[j]}

CloneSecs(c) ==
    IF c[2] = "FUNC"
    THEN <<TextSec(c[1], <<"i1", "i2", "i3", "i4">>, <<RelD(0, "PC32", -4, s_foo, 4)>>),
           SecD(Cat(p_rodata, c[1]), "PROGBITS", {"ALLOC"}, <<"r1">>, 8,
                <<RelD(0, "R64", 0, s_foo, 0)>>)>>
    ELSE <<DataSec(Cat(p_data, c[1]), <<"d1">>, 4, <<>>)>>

RECURSIVE CloneSecList(_)
CloneSecList(list) ==
    IF list = <<>> THEN <<>> ELSE CloneSecs(Head(list)) \o CloneSecList(Tail(list))

CloneObject(list) ==
    LET secs == <<TextSec(s_foo, <<"i1", "i2", "i3", "i4">>, <<>>)>>
                \o CloneSecList(list)
                \o <<SecD(s_shstrtab, "STRTAB", {}, <<"t">>, 1, <<>>),
                     SecD(s_symtab, "SYMTAB", {}, <<"t">>, 8, <<>>),
                     SecD(s_strtab, "STRTAB", {}, <<"t">>, 1, <<>>)>>
        HasSecSym(d) == d.type = "PROGBITS"
        withsym == SelectSeq(secs, HasSecSym)
    IN [secs |-> secs,
        syms |-> <<FileSymD>>
                 \o [i \in 1..Len(list) |->
                        SymD(list[i][1], list[i][2], "LOCAL", 4,
                             Cat(IF list[i][2] = "FUNC" THEN p_text ELSE p_data, list[i][1]))]
                 \o [i \in 1..Len(withsym) |-> SecSymD(withsym[i].name)]
                 \o <<SymD(s_foo, "FUNC", "GLOBAL", 4, Cat(p_text, s_foo))>>]

InitRename ==
    \E b \in CloneLists, q \in CloneLists :
        /\ pc = "headers"
        /\ k = Worlds(CloneObject(b), CloneObject(q), "ok")
        /\ rc = -1
        /\ written = 0
        /\ hist = History([base |-> b, patched |-> q],
                          Worlds(CloneObject(b), CloneObject(q), "ok"), b = q)
        /\ ms = <<>>

NextRename ==
    \/ CheckHeaders
    \/ MarkGroupedSections
    \/ ReplaceSectionsSyms
    \/ RenameMangledFunctions

SpecRename == InitRename /\ [][NextRename]_vars

Renamed == "rename" \in Range(hist.passes)

\* the objects as they were loaded
Loaded == hist.pre

IsClone(sym) ==
    /\ sym.type = "FUNC"
    /\ Contains(sym.name, s_isra) \/ Contains(sym.name, s_constprop)
          \/ Contains(sym.name, s_part)

\* the base symbols whose name equals the loaded name of y but for digits
Matches(y) == {b \in Range(Loaded.bsyms) : Normalised(Loaded.syms[b].name)
                                             = Normalised(Loaded.syms[y].name)}

\* C16: a patched clone has a new name after the renaming pass only when
\* exactly one base symbol matched it and that symbol is a function; its new
\* name is then that function's, and if the clone is its section's bundled
\* symbol, its section, the .rodata sibling and their relocation sections
\* carry the names of the base function's sections.
C16_RenameUnique ==
    Renamed =>
        \A y \in Range(k.psyms) :
            (IsClone(Loaded.syms[y]) /\ k.syms[y].name # Loaded.syms[y].name) =>
                /\ Cardinality(Matches(y)) = 1
                /\ \A b \in Matches(y) :
                      /\ Loaded.syms[b].type = "FUNC"
                      /\ k.syms[y].name = Loaded.syms[b].name
                      /\ Loaded.secs[Loaded.syms[y].sec].sym = y =>
                            /\ k.secs[k.syms[y].sec].name = Cat(p_text, Loaded.syms[b].name)
                            /\ k.secs[k.secs[k.syms[y].sec].rela].name
                                  = Cat(p_rela, Cat(p_text, Loaded.syms[b].name))
                            /\ \E ro \in Range(k.psecs) :
                                  /\ k.secs[ro].name = Cat(p_rodata, Loaded.syms[b].name)
                                  /\ k.secs[k.secs[ro].rela].name
                                        = Cat(p_rela, Cat(p_rodata, Loaded.syms[b].name))

\* what the pass does: a clone is renamed to the first base symbol that matches
\* it, function or not, however many match
C16_FirstMatch ==
    (Renamed /\ k.err = 0) =>
        \A y \in Range(k.psyms) :
            IsClone(Loaded.syms[y]) =>
                LET b == FirstMangled(Loaded, Loaded.bsyms, Loaded.syms[y].name)
                IN IF b = NULL THEN k.syms[y].name = Loaded.syms[y].name
                   ELSE /\ b \in Matches(y)
                        /\ k.syms[y].name = Loaded.syms[b].name
                        /\ k.syms[y].name # Loaded.syms[y].name
                              => k.secs[k.syms[y].sec].name
                                     = Loaded.secs[Loaded.syms[b].sec].name

-----------------------------------------------------------------------------
(* C17: the hook pass                                                        *)

HooksDone == pc = "globals"

\* the relocation sections of the hook sections
HookRelaSecs ==
    {s \in Range(k.psecs) : k.secs[s].name \in {s_rela_hooks_load, s_rela_hooks_unload}}

\* the symbol that relocation i of s targeted when the hook pass began: the
\* loaded target, or the bundled symbol that replaced a section symbol
HookTarget(s, i) ==
    LET t == Loaded.secs[s].relas[i].sym
        tsec == Loaded.syms[t].sec
    IN IF Loaded.syms[t].type = "SECTION" /\ tsec # NULL /\ Loaded.secs[tsec].sym # NULL
       THEN Loaded.secs[tsec].sym ELSE t

HookHandled(s, i) ==
    LET t == HookTarget(s, i)
    IN /\ ~k.syms[t].include
       /\ k.syms[t].status # "SAME" => k.secs[k.syms[t].sec].include
       /\ k.secs[k.syms[t].sec].sym = NULL
       /\ k.secs[s].relas[i].sym # NULL
       /\ k.syms[k.secs[s].relas[i].sym].type = "SECTION"

\* C17: after the hook pass, every relocation of the hook relocation sections
\* has had its target included through the closure and then stripped (include
\* bit and bundled-symbol reference of its section cleared) and targets a
\* section symbol.
C17_EveryHook ==
    HooksDone => \A s \in HookRelaSecs : \A i \in 1..Len(k.secs[s].relas) : HookHandled(s, i)

\* the same for the first relocation of each hook relocation section
C17_FirstHook ==
    HooksDone => \A s \in HookRelaSecs : HookHandled(s, 1)

-----------------------------------------------------------------------------
(* C18: the indirection objects of the hook macros                           *)

IsHookData(sym) == sym.name \in {s_load_data, s_unload_data}

\* C18: on a run that writes an output, no symbol named xsplice_load_data or
\* xsplice_unload_data is part of the output model.
C18_HookDataStripped ==
    written = 1 => \A y \in Range(k.osyms) : ~IsHookData(k.syms[y])

\* the same for the runs whose hook sections are in the base object as well
C18_CorrelatedHookData ==
    (written = 1 /\ hist.scen.hooks \in {"none", "same", "changed"})
        => \A y \in Range(k.osyms) : ~IsHookData(k.syms[y])

\* the hook pass itself leaves the objects excluded
C18_StrippedByHookPass ==
    HooksDone => \A y \in Range(k.psyms) : IsHookData(k.syms[y]) => ~k.syms[y].include

-----------------------------------------------------------------------------
(* C19: ignored functions                                                    *)

\* main() from the header checks to the inclusion of the new globals, as one
\* function of the loaded objects
ApplyPass(kk, name) ==
    CASE name = "headers" ->
            IF kk.bmachine # kk.pmachine \/ kk.bphnum # 0 \/ kk.pphnum # 0
            THEN DiffFatal(kk) ELSE kk
      [] name = "grouped" -> xsplice_mark_grouped_sections(kk, kk.psecs)
      [] name = "replace" ->
            xsplice_replace_sections_syms(
                xsplice_replace_sections_syms(kk, kk.bsecs, kk.bsyms), kk.psecs, kk.psyms)
      [] name = "rename" -> xsplice_rename_mangled_functions(kk)
      [] name = "correlate" -> xsplice_correlate_elfs(kk)
      [] name = "statics" -> xsplice_correlate_static_local_variables(kk)
      [] name = "ignored" -> xsplice_mark_ignored_sections(kk)
      [] name = "compare" -> xsplice_compare_correlated_elements(kk)
      [] name = "teardown_base" -> TeardownBase(kk)
      [] name = "ignfuncs_same" -> xsplice_mark_ignored_functions_same(kk)
      [] name = "ignsecs_same" -> xsplice_mark_ignored_sections_same(kk)
      [] name = "labels_same" -> xsplice_mark_constant_labels_same(kk)
      [] name = "standard" -> xsplice_include_standard_elements(kk)
      [] name = "changed" -> xsplice_include_changed_functions(kk)
      [] name = "debug" -> xsplice_include_debug_sections(kk)
      [] name = "hooks" -> xsplice_include_hook_elements(kk)
      [] name = "globals" -> xsplice_include_new_globals(kk)

RECURSIVE RunPasses(_, _)
RunPasses(kk, names) ==
    IF names = <<>> \/ kk.err # 0 THEN kk
    ELSE RunPasses(ApplyPass(kk, Head(names)), Tail(names))

InclusionPasses ==
    <<"headers", "grouped", "replace", "rename", "correlate", "statics", "ignored",
      "compare", "teardown_base", "ignfuncs_same", "ignsecs_same", "labels_same",
      "standard", "changed", "debug", "hooks", "globals">>

\* the targets of the relocations of .xsplice.ignore.functions in model kk
IgnoredIn(kk) ==
    UNION {{kk.secs[s].relas[i].sym : i \in 1..Len(kk.secs[s].relas)} :
             s \in {t \in Range(kk.psecs) : kk.secs[t].name = Cat(p_rela, s_ignore_functions)}}

IgnoreDone == "ignfuncs_same" \in Range(hist.passes) /\ ~Migrated

AllSame(kk, y) ==
    LET sec == kk.secs[kk.syms[y].sec]
    IN /\ kk.syms[y].status = "SAME"
       /\ sec.status = "SAME"
       /\ sec.secsym # NULL => kk.syms[sec.secsym].status = "SAME"
       /\ sec.rela # NULL => kk.secs[sec.rela].status = "SAME"

\* the included sections and symbols of the patched model, by name
IncludedNames(kk) ==
    {<<"section", kk.secs[s].name>> : s \in {t \in Range(kk.psecs) : kk.secs[t].include}}
    \cup {<<kk.syms[y].type, kk.syms[y].name>> :
             y \in {z \in Range(kk.psyms) : kk.syms[z].include}}

\* the functions that get an entry of the patch table, by name
ChangedNames(kk) ==
    {kk.syms[y].name : y \in {z \in Range(kk.psyms) :
                                  kk.syms[z].include /\ IsChangedFunc(kk.syms[z])}}

\* the same unit without its .xsplice.ignore.functions section, after the
\* inclusion passes
Unlisted == RunPasses(World([hist.scen EXCEPT !.ign = FALSE]), InclusionPasses)

\* C19, first half: from the ignore pass onward an ignored function, its
\* section, its section symbol and its relocation section are SAME, its
\* section is not included, and the patch table has no entry for it
C19_IgnoredSame ==
    /\ IgnoreDone =>
          \A y \in IgnoredIn(k) :
              AllSame(k, y) /\ ~k.secs[k.syms[y].sec].include
    /\ Migrated =>
          \A y \in IgnoredIn(hist.pre) \cap Range(k.osyms) :
              k.syms[y].status = "SAME" /\ k.syms[y].sec = NULL
    /\ written = 1 =>
          \A y \in IgnoredIn(hist.pre) :
              \A i \in 1..Len(k.lookups) : k.lookups[i].name # hist.pre.syms[y].name

\* C19, second half: when every ignored function was found unchanged by the
\* comparison, the inclusion passes select the same elements and the same
\* functions for the patch table as they do without the directive
C19_NoEffectWhenUnchanged ==
    (pc = "decide" /\ hist.scen.ign
       /\ \A y \in IgnoredIn(k) :
              /\ hist.cmp[k.syms[y].sec] = "SAME"
              /\ k.secs[k.syms[y].sec].rela # NULL
                    => hist.cmp[k.secs[k.syms[y].sec].rela] = "SAME")
        => /\ Unlisted.err = 0
           /\ IncludedNames(k) = IncludedNames(Unlisted)
           /\ ChangedNames(k) = ChangedNames(Unlisted)
           /\ k.num_changed = Unlisted.num_changed
           /\ k.new_globals = Unlisted.new_globals

\* C19: every function targeted by a relocation of .xsplice.ignore.functions
\* is SAME from the ignore pass onward, with its section, section symbol and
\* relocation section; it gets no patch table entry and its section is not
\* included; and when it was unchanged anyway the directive changes neither
\* the included elements nor the functions of the patch table.
C19_IgnoredFunctions == C19_IgnoredSame /\ C19_NoEffectWhenUnchanged

\* an output is written for a unit whose changed function foo is ignored: foo
\* is in the output as a symbol without section, and the table holds another
\* function
C19_Witness ==
    /\ written = 1
    /\ hist.scen.ign /\ hist.scen.fooChg
    /\ \E y \in IgnoredIn(hist.pre) \cap Range(k.osyms) :
          /\ hist.cmp[hist.pre.syms[y].sec] = "CHANGED"
          /\ k.syms[y].status = "SAME"
    /\ Len(k.lookups) >= 1

\* the directive names a function that the comparison found unchanged
C19_WitnessUnchanged ==
    /\ pc = "decide" /\ hist.scen.ign
    /\ IgnoredIn(k) # {}
    /\ \A y \in IgnoredIn(k) : hist.cmp[k.syms[y].sec] = "SAME"
    /\ k.num_changed > 0

-----------------------------------------------------------------------------
(* C20: ignored sections                                                     *)

\* the relocations of .xsplice.ignore.sections
IgnoreSecRelas ==
    LET S == {s \in Range(k.psecs) : k.secs[s].name = Cat(p_rela, s_ignore_sections)}
    IN UNION {Range(k.secs[s].relas) : s \in S}

\* the section that holds the name
StringSec(r) == k.syms[r.sym].sec

\* the section named by the string at the addend, or its base
NamedSec(r) ==
    LET name == CStr(k.secs[StringSec(r)].data, r.addend)
        s == CHOOSE t \in Range(k.psecs) : k.secs[t].name = name
    IN IF is_rela_section(k.secs[s]) THEN k.secs[s].base ELSE s

Flagged(r) ==
    LET s == NamedSec(r)
    IN /\ k.secs[s].ignore
       /\ k.secs[s].twin # NULL => k.secs[k.secs[s].twin].ignore

IgnoredSecSame(r) ==
    LET s == NamedSec(r)
        sec == k.secs[s]
    IN /\ sec.ignore
       /\ sec.status = "SAME"
       /\ sec.secsym # NULL => k.syms[sec.secsym].status = "SAME"
       /\ sec.rela # NULL => k.secs[sec.rela].status = "SAME"
       /\ \A y \in Range(k.psyms) : k.syms[y].sec = s => k.syms[y].status = "SAME"

SameWindow ==
    {"labels_same", "standard", "changed", "debug", "hooks", "globals", "decide",
     "special", "verify", "migrate"}

\* C20 as stated: the named section and its twin are flagged; after the
\* comparison stage the section, its section symbol, its relocation section
\* and its symbols are SAME; at the patchability check the string section is
\* CHANGED and included.
C20_AsStated ==
    /\ pc = "compare" => \A r \in IgnoreSecRelas : Flagged(r)
    /\ pc \in SameWindow => \A r \in IgnoreSecRelas : IgnoredSecSame(r)
    /\ pc = "verify" =>
          \A r \in IgnoreSecRelas :
              /\ k.secs[StringSec(r)].include
              /\ k.secs[StringSec(r)].status = "CHANGED"

\* C20: the named section and its twin are flagged; once the ignored sections
\* are marked, the section, its section symbol, its relocation section and
\* its symbols are SAME; at the patchability check the string section is
\* included, and it is CHANGED exactly if it differs from its twin.
C20_IgnoredSections ==
    /\ pc = "compare" => \A r \in IgnoreSecRelas : Flagged(r)
    /\ pc \in SameWindow => \A r \in IgnoreSecRelas : IgnoredSecSame(r)
    /\ pc = "verify" =>
          \A r \in IgnoreSecRelas :
              /\ k.secs[StringSec(r)].include
              /\ k.secs[StringSec(r)].status = StatusByComparison(k, StringSec(r))

\* the check is reached with an ignored section that the comparison had found
\* CHANGED, named through a string section that is itself unchanged
C20_Witness ==
    /\ pc = "verify"
    /\ \E r \in IgnoreSecRelas :
          /\ hist.cmp[NamedSec(r)] = "CHANGED"
          /\ k.secs[NamedSec(r)].status = "SAME"
          /\ k.secs[StringSec(r)].status = "SAME"
          /\ k.secs[StringSec(r)].include

\* a relocation section is named and its base is ignored
C20_WitnessBase ==
    /\ pc = "verify"
    /\ \E r \in IgnoreSecRelas :
          /\ k.secs[NamedSec(r)].name = Cat(p_text, s_bar)
          /\ hist.cmp[NamedSec(r)] = "CHANGED"

-----------------------------------------------------------------------------
(* The inclusion closure, one call of xsplice_include_symbol per step.  The   *)
(* units have the functions foo, bar and baz and a .data section; the         *)
(* relocations of the functions are drawn from every list of at most MaxEdges *)
(* edges, so a function can reference itself and functions can reference each *)
(* other.  The passes before the closure run as in main().                    *)

MaxEdges == 2

CycleFuncs == <<s_foo, s_bar, s_baz>>

\* an edge <<i, j>>: function i has a relocation to function j, or to the
\* section symbol of .data when j is past the functions
CycleEdges == (1..Len(CycleFuncs)) \X (1..(Len(CycleFuncs) + 1))

CycleLists == UNION {[1..n -> CycleEdges] : n \in 0..MaxEdges}

CycleChanges == SUBSET (1..Len(CycleFuncs))

RECURSIVE CycleRelas(_, _, _)
CycleRelas(edges, i, n) ==
    IF edges = <<>> THEN <<>>
    ELSE LET e == Head(edges)
         IN IF e[1] # i THEN CycleRelas(Tail(edges), i, n)
            ELSE <<IF e[2] <= Len(CycleFuncs)
                   THEN RelD(n, "PC32", -4, CycleFuncs[e[2]], 4)
                   ELSE RelD(n, "R32S", 0, p_dotdata, 0)>>
                 \o CycleRelas(Tail(edges), i, n + 1)

CycleObject(edges, chg) ==
    [secs |-> [i \in 1..Len(CycleFuncs) |->
                 TextSec(CycleFuncs[i],
                         <<IF i \in chg THEN "j1" ELSE "i1", "i2", "i3", "i4">>,
                         CycleRelas(edges, i, 0))]
              \o <<DataSec(p_dotdata, <<"d1", "d2">>, 4, <<>>),
                   SecD(s_shstrtab, "STRTAB", {}, <<"t">>, 1, <<>>),
                   SecD(s_symtab, "SYMTAB", {}, <<"t">>, 8, <<>>),
                   SecD(s_strtab, "STRTAB", {}, <<"t">>, 1, <<>>)>>,
     syms |-> <<FileSymD>>
              \o [i \in 1..Len(CycleFuncs) |-> SecSymD(Cat(p_text, CycleFuncs[i]))]
              \o <<SecSymD(p_dotdata)>>
              \o [i \in 1..Len(CycleFuncs) |->
                    SymD(CycleFuncs[i], "FUNC", "GLOBAL", 4, Cat(p_text, CycleFuncs[i]))]]

InitClosure ==
    \E edges \in CycleLists, chg \in CycleChanges :
        /\ pc = "headers"
        /\ k = Worlds(CycleObject(edges, {}), CycleObject(edges, chg), "ok")
        /\ rc = -1
        /\ written = 0
        /\ hist = History([edges |-> edges, chg |-> chg],
                          Worlds(CycleObject(edges, {}), CycleObject(edges, chg), "ok"),
                          chg = {})
        /\ ms = <<>>

\* xsplice_include_changed_functions(): entry of the loop over the symbols
IncludeChangedEnter ==
    /\ pc = "changed"
    /\ pc' = "changed_loop"
    /\ k' = [k EXCEPT !.num_changed = 0]
    /\ ms' = [stack |-> <<>>, todo |-> k.psyms, entry |-> k,
              walked |-> [s \in Range(k.psecs) |-> 0]]
    /\ UNCHANGED <<rc, written, hist>>

\* one iteration of the loop: the call for a changed function is pending on
\* the stack, a FILE symbol is included
IncludeChangedIterate ==
    /\ pc = "changed_loop"
    /\ ms.stack = <<>>
    /\ IF ms.todo = <<>>
       THEN /\ pc' = "debug"
            /\ hist' = [hist EXCEPT !.passes = Append(@, "changed")]
            /\ UNCHANGED <<k, ms>>
       ELSE LET y == Head(ms.todo)
                sym == k.syms[y]
            IN /\ k' = [k EXCEPT !.num_changed = IF IsChangedFunc(sym) THEN @ + 1 ELSE @,
                                 !.syms[y].include = IF sym.type = "FILE" THEN TRUE ELSE @]
               /\ ms' = [ms EXCEPT !.todo = Tail(@),
                                   !.stack = IF IsChangedFunc(sym) THEN <<y>> ELSE @]
               /\ UNCHANGED <<pc, hist>>
    /\ UNCHANGED <<rc, written>>

\* one call of xsplice_include_symbol(): the calls for the relocations of the
\* section are pending before the calls that were pending already
IncludeSymbolCall ==
    /\ pc = "changed_loop"
    /\ ms.stack # <<>>
    /\ LET y == Head(ms.stack)
           k1 == [k EXCEPT !.syms[y].include = TRUE]
       IN IF IsBaseCase(k, y)
          THEN /\ k' = k1
               /\ ms' = [ms EXCEPT !.stack = Tail(@)]
          ELSE LET s == k.syms[y].sec
                   sec == k.secs[s]
                   k2 == [k1 EXCEPT !.secs[s].include = TRUE]
                   k3 == IF sec.secsym # NULL /\ sec.secsym # y
                         THEN [k2 EXCEPT !.syms[sec.secsym].include = TRUE] ELSE k2
               IN IF sec.rela = NULL
                  THEN /\ k' = k3
                       /\ ms' = [ms EXCEPT !.stack = Tail(@)]
                  ELSE /\ k' = [k3 EXCEPT !.secs[sec.rela].include = TRUE]
                       /\ ms' = [ms EXCEPT
                                   !.stack = [i \in 1..Len(k.secs[sec.rela].relas) |->
                                                k.secs[sec.rela].relas[i].sym] \o Tail(@),
                                   !.walked[sec.rela] = @ + 1]
    /\ UNCHANGED <<pc, rc, written, hist>>

NextClosure ==
    \/ CheckHeaders
    \/ MarkGroupedSections
    \/ ReplaceSectionsSyms
    \/ RenameMangledFunctions
    \/ CorrelateElfs
    \/ CorrelateStaticLocalVariables
    \/ MarkIgnoredSections
    \/ CompareCorrelatedElements
    \/ ElfTeardownBase
    \/ MarkIgnoredFunctionsSame
    \/ MarkIgnoredSectionsSame
    \/ MarkConstantLabelsSame
    \/ IncludeStandardElements
    \/ IncludeChangedEnter
    \/ IncludeChangedIterate
    \/ IncludeSymbolCall

\* the closure is sequential code: its pending step is always taken
IncludeChangedSteps == IncludeChangedEnter \/ IncludeChangedIterate \/ IncludeSymbolCall

SpecClosure == InitClosure /\ [][NextClosure]_vars /\ WF_vars(IncludeChangedSteps)

InClosure == pc = "changed_loop"

\* a call that descends marks the section of the symbol, the section symbol
\* of that section and its relocation section, and walks relocations that
\* were not walked before
DescentMarks ==
    (InClosure /\ ms.stack # <<>> /\ ~IsBaseCase(k, Head(ms.stack))) =>
        LET s == k.syms[Head(ms.stack)].sec
            sec == k.secs[s]
        IN /\ k'.secs[s].include
           /\ sec.secsym # NULL => k'.syms[sec.secsym].include
           /\ sec.rela # NULL => /\ k'.secs[sec.rela].include
                                 /\ ms.walked[sec.rela] = 0
                                 /\ ms'.walked[sec.rela] = 1

\* a call on a base case marks the symbol and walks nothing
BaseCaseReturns ==
    (InClosure /\ ms.stack # <<>> /\ IsBaseCase(k, Head(ms.stack))) =>
        /\ ms'.walked = ms.walked
        /\ ms'.stack = Tail(ms.stack)
        /\ k'.secs = k.secs

WalkedOnce == InClosure => \A s \in DOMAIN ms.walked : ms.walked[s] <= 1

\* the steps compute what the recursive function computes
ClosureAgrees ==
    (pc = "debug" /\ rc = -1) => k = xsplice_include_changed_functions(ms.entry)

ClosureEntered == pc = "changed"

ClosureReturned == pc = "debug"

\* C21: the inclusion closure returns on every unit, with functions that
\* reference themselves or each other included: the relocations of a section
\* are walked at most once, a call on a symbol whose section is included, that
\* has no section or that is a SAME non-section symbol walks nothing, and a
\* call that descends marks the section, its section symbol and its
\* relocation section
C21_ClosureTerminates ==
    /\ [][DescentMarks /\ BaseCaseReturns]_vars
    /\ []WalkedOnce
    /\ []ClosureAgrees
    /\ ClosureEntered ~> ClosureReturned

\* foo and bar changed and referencing each other, both walked, closure over
C21_Witness ==
    /\ pc = "debug"
    /\ rc = -1
    /\ \E a, b \in Range(k.psyms) :
          /\ a # b
          /\ k.syms[a].type = "FUNC" /\ k.syms[b].type = "FUNC"
          /\ k.syms[a].status = "CHANGED" /\ k.syms[b].status = "CHANGED"
          /\ \A p \in {<<a, b>>, <<b, a>>} :
                LET r == k.secs[k.syms[p[1]].sec].rela
                IN /\ r # NULL
                   /\ ms.walked[r] = 1
                   /\ \E i \in 1..Len(k.secs[r].relas) : k.secs[r].relas[i].sym = p[2]

-----------------------------------------------------------------------------
(* Relocation equality.  The units have one function foo whose relocations    *)
(* are drawn from RelaKinds: calls of undefined functions, references to      *)
(* constant labels, to the objects __func__.1 and __func__.2 of .data and to  *)
(* string literals.  The patched list is the base list with one relocation    *)
(* replaced, by itself too; __func__.2 is global in one unit or in none.      *)

MaxRelas == 2

s_func2 == <<"_", "_", "f", "u", "n", "c", "_", "_", ".", "2">>
s_LC1 == <<".", "L", "C", "1">>
s_LC2 == <<".", "L", "C", "2">>

RelaKinds ==
    {[type |-> "PC32", addend |-> -4, symname |-> s_bar, string |-> NULLSTR, shift |-> 0],
     [type |-> "PC32", addend |-> -8, symname |-> s_bar, string |-> NULLSTR, shift |-> 0],
     [type |-> "R32S", addend |-> -4, symname |-> s_bar, string |-> NULLSTR, shift |-> 0],
     [type |-> "PC32", addend |-> -4, symname |-> s_bar, string |-> NULLSTR, shift |-> 1],
     [type |-> "R32S", addend |-> 0, symname |-> s_LC1, string |-> NULLSTR, shift |-> 0],
     [type |-> "R32S", addend |-> 0, symname |-> s_LC2, string |-> NULLSTR, shift |-> 0],
     [type |-> "R32S", addend |-> 0, symname |-> s_func1, string |-> NULLSTR, shift |-> 0],
     [type |-> "R32S", addend |-> 0, symname |-> s_func2, string |-> NULLSTR, shift |-> 0],
     [type |-> "R32S", addend |-> 0, symname |-> s_str1_1, string |-> <<"s">>, shift |-> 0],
     [type |-> "R32S", addend |-> 2, symname |-> s_str1_1, string |-> <<"t">>, shift |-> 0]}

RelaLists == UNION {[1..n -> RelaKinds] : n \in 1..MaxRelas}

\* which unit declares __func__.2 global
GlobalIn == {"none", "base", "patched"}

UndefSymD(name) ==
    [SymD(name, "NOTYPE", "GLOBAL", 0, s_empty) EXCEPT !.hassec = FALSE, !.shndx = SHN_UNDEF]

RelaObject(list, glob) ==
    [secs |-> <<TextSec(s_foo, <<"i1", "i2", "i3", "i4", "i5", "i6", "i7", "i8">>,
                        [i \in 1..Len(list) |->
                           [RelD(4 * (i - 1) + list[i].shift, list[i].type, list[i].addend,
                                 list[i].symname, 4)
                              EXCEPT !.string = list[i].string]]),
                DataSec(p_dotdata, <<"d1", "d2">>, 4, <<>>),
                SecD(s_str1_1, "PROGBITS", {"ALLOC", "MERGE", "STRINGS"},
                     <<"s", NUL, "t", NUL>>, 1, <<>>),
                SecD(s_shstrtab, "STRTAB", {}, <<"t">>, 1, <<>>),
                SecD(s_symtab, "SYMTAB", {}, <<"t">>, 8, <<>>),
                SecD(s_strtab, "STRTAB", {}, <<"t">>, 1, <<>>)>>,
     syms |-> <<FileSymD,
                SymD(s_LC1, "NOTYPE", "LOCAL", 0, s_str1_1),
                [SymD(s_LC2, "NOTYPE", "LOCAL", 0, s_str1_1) EXCEPT !.value = 2],
                SymD(s_func1, "OBJECT", "LOCAL", 1, p_dotdata)>>
              \o Opt(~glob, <<[SymD(s_func2, "OBJECT", "LOCAL", 1, p_dotdata)
                                 EXCEPT !.value = 1]>>)
              \o <<SecSymD(Cat(p_text, s_foo)), SecSymD(p_dotdata), SecSymD(s_str1_1)>>
              \o Opt(glob, <<[SymD(s_func2, "OBJECT", "GLOBAL", 1, p_dotdata)
                                EXCEPT !.value = 1]>>)
              \o <<SymD(s_foo, "FUNC", "GLOBAL", 8, Cat(p_text, s_foo)),
                   UndefSymD(s_bar)>>]

\* list with the relocation at position j replaced by kind c
Replaced(list, j, c) == [i \in 1..Len(list) |-> IF i = j THEN c ELSE list[i]]

InitRela ==
    \E b \in RelaLists, c \in RelaKinds, g \in GlobalIn :
        \E j \in 1..Len(b) :
            LET w == Worlds(RelaObject(b, g = "base"),
                            RelaObject(Replaced(b, j, c), g = "patched"), "ok")
            IN /\ pc = "headers"
               /\ k = w
               /\ rc = -1
               /\ written = 0
               /\ hist = History([base |-> b, at |-> j, kind |-> c, glob |-> g], w,
                                 c = b[j] /\ g = "none")
               /\ ms = <<>>

NextRela ==
    \/ CheckHeaders
    \/ MarkGroupedSections
    \/ ReplaceSectionsSyms
    \/ RenameMangledFunctions
    \/ CorrelateElfs
    \/ CorrelateStaticLocalVariables
    \/ MarkIgnoredSections
    \/ CompareCorrelatedElements

SpecRela == InitRela /\ [][NextRela]_vars

Compared == pc = "teardown_base"

\* the relocation sections of the patched unit that the comparison walked:
\* correlated and of the size of the twin
WalkedRelaSecs ==
    {s \in Range(k.psecs) : /\ is_rela_section(k.secs[s])
                            /\ k.secs[s].twin # NULL
                            /\ k.secs[s].size = k.secs[k.secs[s].twin].size}

\* the targets of a patched relocation r1 and of the base relocation r2 agree;
\* the names are compared under mangled equality when a target listed in
\* tested is a special static
TargetsAgree(r1, r2, tested) ==
    LET n1 == k.syms[r1.sym].name
        n2 == k.syms[r2.sym].name
    IN \/ is_constant_label(k.syms[r1.sym]) /\ is_constant_label(k.syms[r2.sym])
       \/ IF \E r \in tested : is_special_static(k, r.sym)
          THEN Normalised(n1) = Normalised(n2)
          ELSE n1 = n2

RelasAgree(r1, r2, tested) ==
    /\ r1.type = r2.type
    /\ r1.offset = r2.offset
    /\ IF r1.string # NULLSTR THEN r2.string = r1.string
       ELSE r1.addend = r2.addend /\ TargetsAgree(r1, r2, tested)

\* C22 as stated: the names are compared under mangled equality when either
\* target is a special static
C22_EitherSpecial ==
    Compared =>
        \A s \in WalkedRelaSecs :
            LET r1 == k.secs[s].relas
                r2 == k.secs[k.secs[s].twin].relas
            IN k.secs[s].status = "CHANGED"
                  <=> \E i \in 1..Len(r1) : ~RelasAgree(r1[i], r2[i], {r1[i], r2[i]})

\* C22: a correlated relocation section of the size of its twin is CHANGED
\* exactly when, walking both lists in order, some patched relocation and the
\* base relocation at its position differ in type or offset, or the patched
\* one has a string and the base one has not the same string, or it has none
\* and the addends differ or the targets do not agree; targets agree when both
\* are constant labels, or their names are equal, under mangled equality when
\* the target of the patched relocation is a special static and literally
\* otherwise
C22_RelocationEquality ==
    Compared =>
        \A s \in WalkedRelaSecs :
            LET r1 == k.secs[s].relas
                r2 == k.secs[k.secs[s].twin].relas
            IN /\ Len(r1) = Len(r2)
               /\ k.secs[s].status \in {"SAME", "CHANGED"}
               /\ k.secs[s].status = "CHANGED"
                     <=> \E i \in 1..Len(r1) : ~RelasAgree(r1[i], r2[i], {r1[i]})

\* two relocations walked: the first pair is equal by its strings, the second
\* pair has a special static of the patched unit whose name differs from the
\* base target's name in the digits only
C22_Witness ==
    /\ Compared
    /\ \E s \in WalkedRelaSecs :
          LET r1 == k.secs[s].relas
              r2 == k.secs[k.secs[s].twin].relas
          IN /\ Len(r1) = 2
             /\ k.secs[s].status = "SAME"
             /\ r1[1].string # NULLSTR
             /\ is_special_static(k, r1[2].sym)
             /\ k.syms[r1[2].sym].name # k.syms[r2[2].sym].name

-----------------------------------------------------------------------------
(* Section-symbol canonicalization.  The units have the functions foo and     *)
(* bar, each bundled with its section, and a .data section of six bytes with  *)
(* the objects x at 0..1 and c.7 at 2..3; foo, and .debug_info when the unit  *)
(* has it, hold relocations drawn from RefKinds.                              *)

MaxRefs == 2

RefTypes == {"PC32", "R64", "R32S", "R32"}

RefTargets == {p_dotdata, Cat(p_text, s_bar), s_x}

RefAddends == {-4, -2, 0, 3, 5}

RefKinds == [type : RefTypes, symname : RefTargets, addend : RefAddends]

RefLists == UNION {[1..n -> RefKinds] : n \in 1..MaxRefs}

RefRelas(list) ==
    [i \in 1..Len(list) |-> RelD(4 * (i - 1), list[i].type, list[i].addend,
                                 list[i].symname, 4)]

RefObject(list, dbg) ==
    [secs |-> <<TextSec(s_foo, <<"i1", "i2", "i3", "i4", "i5", "i6", "i7", "i8">>,
                        RefRelas(list)),
                TextSec(s_bar, <<"j1", "j2", "j3", "j4">>, <<>>),
                DataSec(p_dotdata, <<"d1", "d2", "d3", "d4", "d5", "d6">>, 4, <<>>)>>
              \o Opt(dbg, <<SecD(s_debug_info, "PROGBITS", {}, <<"d">>, 1, RefRelas(list))>>)
              \o <<SecD(s_shstrtab, "STRTAB", {}, <<"t">>, 1, <<>>),
                   SecD(s_symtab, "SYMTAB", {}, <<"t">>, 8, <<>>),
                   SecD(s_strtab, "STRTAB", {}, <<"t">>, 1, <<>>)>>,
     syms |-> <<FileSymD,
                SymD(s_x, "OBJECT", "LOCAL", 2, p_dotdata),
                [SymD(s_c7, "OBJECT", "LOCAL", 2, p_dotdata) EXCEPT !.value = 2],
                SecSymD(Cat(p_text, s_foo)), SecSymD(Cat(p_text, s_bar)),
                SecSymD(p_dotdata)>>
              \o Opt(dbg, <<SecSymD(s_debug_info)>>)
              \o <<SymD(s_foo, "FUNC", "GLOBAL", 8, Cat(p_text, s_foo)),
                   SymD(s_bar, "FUNC", "GLOBAL", 4, Cat(p_text, s_bar))>>]

\* the patched unit holds the relocations of the base unit in reverse order
Reverse(list) == [i \in 1..Len(list) |-> list[Len(list) + 1 - i]]

InitReplace ==
    \E b \in RefLists, dbg \in BOOLEAN :
        LET w == Worlds(RefObject(b, dbg), RefObject(Reverse(b), dbg), "ok")
        IN /\ pc = "headers"
           /\ k = w
           /\ rc = -1
           /\ written = 0
           /\ hist = History([base |-> b, debug |-> dbg], w, b = Reverse(b))
           /\ ms = <<>>

NextReplace ==
    \/ CheckHeaders
    \/ MarkGroupedSections
    \/ ReplaceSectionsSyms

SpecReplace == InitReplace /\ [][NextReplace]_vars

Replaced23 == pc = "rename"

\* the relocations of both units as <<section, position>>
AllRelas ==
    {<<s, i>> \in (Range(k.bsecs) \cup Range(k.psecs)) \X (1..MaxRefs + 1) :
        is_rela_section(k.secs[s]) /\ i <= Len(k.secs[s].relas)}

\* the symbol list of the unit of section s
UnitSyms(s) == IF s \in Range(k.bsecs) THEN k.bsyms ELSE k.psyms

\* next-instruction offset minus relocation offset for a PC-relative
\* relocation, 0 for the absolute ones
Adjust(r) == IF r.type = "PC32" THEN r.addoff ELSE 0

\* the symbols of the unit of s, other than section symbols, that live in
\* section t and whose range holds offset e
Containing(s, t, e) ==
    {y \in Range(UnitSyms(s)) : /\ k.syms[y].type # "SECTION"
                                /\ k.syms[y].sec = t
                                /\ k.syms[y].value <= e
                                /\ e < k.syms[y].value + k.syms[y].size}

\* C23: after the pass no relocation of a non-debug relocation section
\* targets the section symbol of a section with a bundled symbol; a
\* relocation of type 64-bit absolute, 32-bit signed absolute or 32-bit
\* PC-relative to the section symbol of a section without bundled symbol is
\* rewritten, when a symbol of that section contains addend + adjust, to such
\* a symbol with st_value + new addend equal to the old addend; relocations of
\* other types to such a section symbol, relocations with no containing
\* symbol, relocations of debug sections and relocations whose target is no
\* section symbol are as they were loaded
C23_Canonical ==
    Replaced23 =>
        \A p \in AllRelas :
            LET s == p[1]
                old == Loaded.secs[s].relas[p[2]]
                new == k.secs[s].relas[p[2]]
                t == k.syms[old.sym]
                bundled == t.type = "SECTION" /\ k.secs[t.sec].sym # NULL
                cont == Containing(s, t.sec, old.addend + Adjust(old))
            IN /\ ~is_debug_section(k.secs, s) =>
                     ~(k.syms[new.sym].type = "SECTION"
                       /\ k.secs[k.syms[new.sym].sec].sym # NULL)
               /\ (/\ ~is_debug_section(k.secs, s)
                   /\ t.type = "SECTION" /\ ~bundled
                   /\ old.type \in {"R64", "R32S", "PC32"}
                   /\ cont # {}) =>
                     /\ new.sym \in cont
                     /\ k.syms[new.sym].value + new.addend = old.addend
                     /\ new.type = old.type /\ new.offset = old.offset
               /\ (\/ is_debug_section(k.secs, s)
                   \/ t.type # "SECTION"
                   \/ ~bundled /\ old.type \notin {"R64", "R32S", "PC32"}
                   \/ ~bundled /\ cont = {}) => new = old
               /\ (~is_debug_section(k.secs, s) /\ bundled) =>
                     new = [old EXCEPT !.sym = k.secs[t.sec].sym]

\* the pass rewrote a PC-relative relocation to an object that does not start
\* its section, left a relocation of another type to the same section symbol
\* alone, or left one alone whose offset no symbol contains
C23_Witness ==
    /\ Replaced23
    /\ \E p \in AllRelas :
          LET old == Loaded.secs[p[1]].relas[p[2]]
              new == k.secs[p[1]].relas[p[2]]
          IN /\ old.type = "PC32"
             /\ new.sym # old.sym
             /\ k.syms[new.sym].value > 0
             /\ new.addend # old.addend
    /\ \E p \in AllRelas :
          LET old == Loaded.secs[p[1]].relas[p[2]]
          IN /\ ~is_debug_section(k.secs, p[1])
             /\ k.syms[old.sym].type = "SECTION"
             /\ k.secs[p[1]].relas[p[2]] = old

-----------------------------------------------------------------------------
(* Static-local correlation, one symbol of the patched unit per step.  The    *)
(* units have the function foo, the patched unit and possibly the base unit   *)
(* the function bar, and at most MaxStatics local objects with names that     *)
(* differ in the digits only, each referenced from a subset of the functions, *)
(* in the patched unit possibly from none; the objects of a unit are all      *)
(* bundled or all in .data.                                                   *)

MaxStatics == 2

s_c8 == <<"c", ".", "8">>

StaticFuncs == <<s_foo, s_bar>>

\* the lists of at most MaxStatics objects with distinct names
StaticLists(names, refs) ==
    {l \in UNION {[1..n -> [name : names, refs : refs]] : n \in 0..MaxStatics} :
        \A i, j \in 1..Len(l) : i # j => l[i].name # l[j].name}

RECURSIVE StaticRelas(_, _, _, _)
StaticRelas(objs, f, i, n) ==
    IF i > Len(objs) THEN <<>>
    ELSE IF f \in objs[i].refs
         THEN <<RelD(n, "R32S", 0, objs[i].name, 0)>> \o StaticRelas(objs, f, i + 1, n + 1)
         ELSE StaticRelas(objs, f, i + 1, n)

StaticObject(objs, bundled, funcs) ==
    LET fs == SelectSeq(StaticFuncs, LAMBDA f : f \in funcs)
        secOf(o) == IF bundled THEN Cat(p_data, o.name) ELSE p_dotdata
    IN [secs |-> [i \in 1..Len(fs) |->
                    TextSec(fs[i], <<"i1", "i2", "i3", "i4">>, StaticRelas(objs, fs[i], 1, 0))]
                 \o (IF bundled
                     THEN [i \in 1..Len(objs) |-> DataSec(secOf(objs[i]), <<"d1">>, 4, <<>>)]
                     ELSE <<DataSec(p_dotdata, <<"d1", "d2">>, 4, <<>>)>>)
                 \o <<SecD(s_shstrtab, "STRTAB", {}, <<"t">>, 1, <<>>),
                      SecD(s_symtab, "SYMTAB", {}, <<"t">>, 8, <<>>),
                      SecD(s_strtab, "STRTAB", {}, <<"t">>, 1, <<>>)>>,
        syms |-> <<FileSymD>>
                 \o [i \in 1..Len(objs) |->
                       [SymD(objs[i].name, "OBJECT", "LOCAL", 1, secOf(objs[i]))
                          EXCEPT !.value = IF bundled THEN 0 ELSE i - 1]]
                 \o [i \in 1..Len(fs) |-> SecSymD(Cat(p_text, fs[i]))]
                 \o (IF bundled THEN [i \in 1..Len(objs) |-> SecSymD(secOf(objs[i]))]
                     ELSE <<SecSymD(p_dotdata)>>)
                 \o [i \in 1..Len(fs) |-> SymD(fs[i], "FUNC", "GLOBAL", 4, Cat(p_text, fs[i]))]]

InitStatic ==
    \E bfuncs \in {{s_foo}, {s_foo, s_bar}}, bb \in BOOLEAN, pb \in BOOLEAN :
        \E b \in StaticLists({s_c7, s_c9}, (SUBSET bfuncs) \ {{}}),
           q \in StaticLists({s_c7, s_c8}, SUBSET {s_foo, s_bar}) :
            LET w == Worlds(StaticObject(b, bb, bfuncs), StaticObject(q, pb, {s_foo, s_bar}), "ok")
            IN /\ (b = <<>> => bb) /\ (q = <<>> => pb)
               /\ pc = "headers"
               /\ k = w
               /\ rc = -1
               /\ written = 0
               /\ hist = History([base |-> b, patched |-> q, bbundled |-> bb,
                                  pbundled |-> pb, bfuncs |-> bfuncs], w, FALSE)
               /\ ms = <<>>

\* xsplice_correlate_static_local_variables(): entry of the loop
StaticEnter ==
    /\ pc = "statics"
    /\ pc' = "statics_loop"
    /\ ms' = [todo |-> k.psyms, entry |-> k]
    /\ UNCHANGED <<k, rc, written, hist>>

\* one iteration of the loop over the symbols of the patched unit
StaticIterate ==
    /\ pc = "statics_loop"
    /\ IF ms.todo = <<>>
       THEN /\ pc' = "ignored"
            /\ hist' = [hist EXCEPT !.passes = Append(@, "statics")]
            /\ UNCHANGED <<k, rc, ms>>
       ELSE LET k1 == StaticOne(k, Head(ms.todo))
            IN /\ k' = k1
               /\ ms' = [ms EXCEPT !.todo = Tail(@)]
               /\ pc' = IF k1.err # 0 THEN "done" ELSE pc
               /\ rc' = IF k1.err # 0 THEN k1.err ELSE rc
               /\ UNCHANGED hist
    /\ UNCHANGED written

NextStatic ==
    \/ CheckHeaders
    \/ MarkGroupedSections
    \/ ReplaceSectionsSyms
    \/ RenameMangledFunctions
    \/ CorrelateElfs
    \/ StaticEnter
    \/ StaticIterate

SpecStatic == InitStatic /\ [][NextStatic]_vars

\* an iteration is about to look at symbol StaticSym
InStaticStep == pc = "statics_loop" /\ ms.todo # <<>>

StaticSym == Head(ms.todo)

\* the iteration goes past the tests at the head of the loop
Eligible(y) ==
    /\ k.syms[y].type = "OBJECT"
    /\ k.syms[y].bind = "LOCAL"
    /\ k.syms[y].twin = NULL
    /\ ~is_special_static(k, y)
    /\ \E i \in 1..Len(k.syms[y].name) : k.syms[y].name[i] = "."

Targets(s) == {k.secs[s].relas[i].sym : i \in 1..Len(k.secs[s].relas)}

\* the text relocation sections of the patched unit that reference y
RefSecs(y) ==
    {t \in Range(k.psecs) : /\ is_rela_section(k.secs[t])
                            /\ is_text_section(k.secs[k.secs[t].base])
                            /\ y \in Targets(t)}

MangledEqual(a, b) == Normalised(k.syms[a].name) = Normalised(k.syms[b].name)

\* the untwinned symbols referenced from the twin of t whose name equals the
\* name of y under mangled equality
TwinCandidates(t, y) ==
    IF k.secs[t].twin = NULL THEN {}
    ELSE {b \in Targets(k.secs[t].twin) : k.syms[b].twin = NULL /\ MangledEqual(b, y)}

\* the other untwinned symbols referenced from t with a name equal to the
\* name of y under mangled equality
Orphans(t, y) == {z \in Targets(t) \ {y} : k.syms[z].twin = NULL /\ MangledEqual(z, y)}

AllCandidates(y) == UNION {TwinCandidates(t, y) : t \in RefSecs(y)}

IsBundled(y) == k.secs[k.syms[y].sec].sym = y

Aborts == k'.err = 1 /\ pc' = "done" /\ rc' = 1

\* what a successful correlation of y leaves
TwinnedOk(y) ==
    LET b == k'.syms[y].twin
    IN /\ Eligible(y)
       /\ b \in Range(k.bsyms)
       /\ k.syms[b].twin = NULL
       /\ MangledEqual(b, y)
       /\ \E t \in RefSecs(y) : k.secs[t].twin # NULL /\ b \in Targets(k.secs[t].twin)
       /\ k'.syms[b].twin = y
       /\ k'.syms[y].name = k.syms[b].name
       /\ k'.syms[y].status = "SAME" /\ k'.syms[b].status = "SAME"
       /\ IsBundled(y) = IsBundled(b)
       /\ IsBundled(y) => /\ k'.secs[k.syms[y].sec].twin = k.syms[b].sec
                          /\ k'.secs[k.syms[b].sec].twin = k.syms[y].sec

\* the symbol and its name, twin and status are as before the iteration
Untouched(y) == k'.syms[y] = k.syms[y]

StaticStep(orphanSecs) ==
    InStaticStep =>
        LET y == StaticSym
        IN /\ k'.syms[y].twin # k.syms[y].twin => TwinnedOk(y)
           /\ ~Eligible(y) => k' = k
           /\ (Eligible(y) /\ \E t \in RefSecs(y) : Cardinality(TwinCandidates(t, y)) > 1)
                 => Aborts
           /\ (Eligible(y) /\ \E t \in orphanSecs : Orphans(t, y) # {}) => Aborts
           /\ (Eligible(y) /\ Cardinality(AllCandidates(y)) > 1) => Aborts
           /\ (Eligible(y) /\ \E b \in AllCandidates(y) : IsBundled(b) # IsBundled(y))
                 => Aborts
           /\ (Eligible(y) /\ AllCandidates(y) = {}) =>
                 /\ Untouched(y)
                 /\ k.syms[y].status = "NEW"
                 /\ k'.secs = k.secs

\* the iterations compute what the pass computes
StaticAgrees ==
    (pc = "ignored" \/ (pc = "done" /\ ms # <<>>)) =>
        k = xsplice_correlate_static_local_variables(ms.entry)

\* C24 as stated: another untwinned symbol of that name in any text
\* relocation section that references the patched symbol aborts the run
C24_AnyOrphanAborts == [][StaticStep(RefSecs(StaticSym))]_vars

\* C24: a patched local object with a '.' in its name, untwinned and no
\* special static, is twinned only to an untwinned base symbol whose name is
\* equal under mangled equality and that the twin of a text relocation
\* section referencing the patched symbol references; then the patched symbol
\* has the base name, both are SAME and twins of each other, and their
\* sections are twins when the symbols are bundled.  The run aborts with an
\* error when the twin of a referencing section references two candidates,
\* when a referencing section that has a twin references another untwinned
\* symbol of that name, when two referencing sections yield different
\* candidates, and when exactly one of the symbol and its candidate is
\* bundled.  With no candidate the symbol stays NEW, untwinned, with its name
C24_StaticLocals ==
    /\ [][StaticStep({t \in RefSecs(StaticSym) : k.secs[t].twin # NULL})]_vars
    /\ []StaticAgrees

\* an iteration has twinned c.8 of the patched unit to a base object of
\* another name, both bundled
C24_Witness ==
    /\ pc = "statics_loop"
    /\ \E y \in Range(k.psyms) :
          /\ y \notin Range(ms.todo)
          /\ k.syms[y].type = "OBJECT"
          /\ k.syms[y].twin # NULL
          /\ ms.entry.syms[y].twin = NULL
          /\ ms.entry.syms[y].name # k.syms[y].name
          /\ k.secs[k.syms[y].sec].sym = y
          /\ k.secs[k.syms[y].sec].twin = k.syms[k.syms[y].twin].sec

-----------------------------------------------------------------------------
(* The group walk of .fixup.  The units have the changed function foo, the    *)
(* unchanged function bar, a .fixup section of FixupSlots pieces of four      *)
(* bytes, each with one relocation to the function it belongs to, and an      *)
(* .ex_table whose entries reference the function and the start of a piece of *)
(* .fixup, in every order of at most MaxFixups entries.                       *)

MaxFixups == 3

FixupSlots == 3

FixupOffsets == {4 * (j - 1) : j \in 1..FixupSlots}

FixupOrders == UNION {[1..n -> FixupOffsets] : n \in 0..MaxFixups}

FixupOwners == [1..FixupSlots -> {s_foo, s_bar}]

FixupObject(order, owners, align, patched) ==
    [secs |-> <<TextSec(s_foo, <<IF patched THEN "j1" ELSE "i1", "i2", "i3", "i4">>, <<>>),
                TextSec(s_bar, <<"b1", "b2", "b3", "b4">>, <<>>),
                SecD(s_fixup, "PROGBITS", {"ALLOC", "EXEC"},
                     [i \in 1..(4 * FixupSlots) |-> i], align,
                     [j \in 1..FixupSlots |-> RelD(4 * (j - 1), "PC32", -4, owners[j], 4)]),
                SecD(s_ex_table, "PROGBITS", {"ALLOC"},
                     [i \in 1..(8 * Len(order)) |-> "e"], 8,
                     [i \in 1..(2 * Len(order)) |->
                        IF i % 2 = 1
                        THEN RelD(4 * (i - 1), "PC32", 0,
                                  owners[order[(i + 1) \div 2] \div 4 + 1], 4)
                        ELSE RelD(4 * (i - 1), "PC32", order[i \div 2], s_fixup, 4)]),
                SecD(s_shstrtab, "STRTAB", {}, <<"t">>, 1, <<>>),
                SecD(s_symtab, "SYMTAB", {}, <<"t">>, 8, <<>>),
                SecD(s_strtab, "STRTAB", {}, <<"t">>, 1, <<>>)>>,
     syms |-> <<FileSymD,
                SecSymD(Cat(p_text, s_foo)), SecSymD(Cat(p_text, s_bar)),
                SecSymD(s_fixup), SecSymD(s_ex_table),
                SymD(s_foo, "FUNC", "GLOBAL", 4, Cat(p_text, s_foo)),
                SymD(s_bar, "FUNC", "GLOBAL", 4, Cat(p_text, s_bar))>>]

InitFixup ==
    \E order \in FixupOrders, owners \in FixupOwners, align \in {1, 8} :
        LET w == Worlds(FixupObject(order, owners, align, FALSE),
                        FixupObject(order, owners, align, TRUE), "ok")
        IN /\ pc = "headers"
           /\ k = w
           /\ rc = -1
           /\ written = 0
           /\ hist = History([order |-> order, owners |-> owners, align |-> align], w, FALSE)
           /\ ms = <<>>

NextFixup ==
    \/ CheckHeaders
    \/ MarkGroupedSections
    \/ ReplaceSectionsSyms
    \/ RenameMangledFunctions
    \/ CorrelateElfs
    \/ CorrelateStaticLocalVariables
    \/ MarkIgnoredSections
    \/ CompareCorrelatedElements
    \/ ElfTeardownBase
    \/ MarkIgnoredFunctionsSame
    \/ MarkIgnoredSectionsSame
    \/ MarkConstantLabelsSame
    \/ IncludeStandardElements
    \/ IncludeChangedFunctions
    \/ IncludeDebugSections
    \/ IncludeHookElements
    \/ IncludeNewGlobals
    \/ Decide
    \/ ProcessSpecialSections

SpecFixup == InitFixup /\ [][NextFixup]_vars

\* the special-section pass has run to its end, or has ended the run
SpecialsDone == pc = "verify"

SpecialsFailed ==
    pc = "done" /\ hist.passes # <<>> /\ hist.passes[Len(hist.passes)] = "decide"

\* the model the pass started from
BeforeSpecials == hist.pre

FixupSec == find_section_by_name(BeforeSpecials, BeforeSpecials.psecs, s_fixup)

\* the offsets of .fixup that .rela.ex_table references
FixupStarts ==
    LET x == find_section_by_name(BeforeSpecials, BeforeSpecials.psecs, s_rela_ex_table)
    IN IF x = NULL THEN {}
       ELSE {BeforeSpecials.secs[x].relas[i].addend :
               i \in {j \in 1..Len(BeforeSpecials.secs[x].relas) :
                        BeforeSpecials.syms[BeforeSpecials.secs[x].relas[j].sym].name
                           = s_fixup}}

PaddedSize(sec) == ((sec.size + sec.align - 1) \div sec.align) * sec.align

\* the end of the group that starts at o: the next larger start, or the
\* padded end of the section
FixupGroupEnd(o) ==
    LET later == {a \in FixupStarts : a > o}
    IN IF later = {} THEN PaddedSize(BeforeSpecials.secs[FixupSec])
       ELSE CHOOSE a \in later : \A b \in later : a <= b

\* the group that starts at o holds a relocation to a function whose section
\* is included
FixupGroupKept(o) ==
    LET relas == BeforeSpecials.secs[BeforeSpecials.secs[FixupSec].rela].relas
    IN \E i \in 1..Len(relas) :
          /\ relas[i].offset >= o /\ relas[i].offset < FixupGroupEnd(o)
          /\ BeforeSpecials.syms[relas[i].sym].type = "FUNC"
          /\ BeforeSpecials.secs[BeforeSpecials.syms[relas[i].sym].sec].include

\* the bytes of the kept groups from offset o on, in order
RECURSIVE FixupKeptBytes(_)
FixupKeptBytes(o) ==
    LET sec == BeforeSpecials.secs[FixupSec]
    IN IF o >= sec.size \/ o \notin FixupStarts THEN <<>>
       ELSE (IF FixupGroupKept(o)
             THEN [i \in 1..(IF FixupGroupEnd(o) > sec.size THEN sec.size
                             ELSE FixupGroupEnd(o)) - o |-> sec.data[o + i]]
             ELSE <<>>) \o FixupKeptBytes(FixupGroupEnd(o))

\* .fixup after the pass holds the bytes of the kept groups, or is left out
\* when no group is kept
FixupRegenerated ==
    LET kept == FixupKeptBytes(0)
    IN IF kept = <<>> THEN ~k.secs[FixupSec].include
       ELSE k.secs[FixupSec].include /\ k.secs[FixupSec].data = kept

\* C25: the groups of .fixup start at the offsets that .rela.ex_table
\* references, each extends to the next larger such offset whatever the
\* order of the entries of .rela.ex_table, the last to the padded end of the
\* section; the walk from offset 0 over these groups ends at the padded size,
\* so the pass fails only when no group starts at offset 0
C25_FixupGroups ==
    /\ SpecialsDone => FixupRegenerated
    /\ SpecialsFailed => 0 \notin FixupStarts

\* the entries of .rela.ex_table reference .fixup in increasing order
FixupSorted ==
    \A i, j \in 1..Len(hist.scen.order) : i < j => hist.scen.order[i] < hist.scen.order[j]

\* with the references in increasing order and a section size that is a
\* multiple of the alignment, the groups are the claimed ones
C25_SortedFixupGroups ==
    (FixupSorted /\ FixupSec # NULL
     /\ PaddedSize(BeforeSpecials.secs[FixupSec]) = BeforeSpecials.secs[FixupSec].size) =>
        /\ SpecialsDone => FixupRegenerated
        /\ SpecialsFailed => 0 \notin FixupStarts

\* three groups referenced in increasing order, the first and the last kept
C25_WitnessSorted ==
    /\ SpecialsDone
    /\ FixupSorted
    /\ Len(hist.scen.order) = 3
    /\ k.secs[FixupSec].include
    /\ k.secs[FixupSec].data = <<1, 2, 3, 4, 9, 10, 11, 12>>

-----------------------------------------------------------------------------
(* Debug sections.  The units have the functions foo and bar, the patched     *)
(* unit the new global function baz, an .ex_table with one entry that belongs *)
(* to foo or to bar, the sections .debug_info and .debug_str and an undefined *)
(* symbol; .debug_info has relocations to any subset of DebugTargets, and foo *)
(* may hold the address of .ex_table.                                         *)

s_debug_str == <<".", "d", "e", "b", "u", "g", "_", "s", "t", "r">>
s_ext == <<"e", "x", "t">>

DebugTargets ==
    <<Cat(p_text, s_foo), Cat(p_text, s_bar), Cat(p_text, s_baz), s_ex_table, s_debug_str,
      s_ext>>

DebugSubsets == SUBSET (1..Len(DebugTargets))

RECURSIVE DebugRelas(_, _, _)
DebugRelas(d, i, n) ==
    IF i > Len(DebugTargets) THEN <<>>
    ELSE IF i \in d
         THEN <<RelD(8 * n, "R64", 0, DebugTargets[i], 0)>> \o DebugRelas(d, i + 1, n + 1)
         ELSE DebugRelas(d, i + 1, n)

DebugObject(p, patched) ==
    [secs |-> <<TextSec(s_foo, <<IF patched /\ p.fooChg THEN "j1" ELSE "i1", "i2", "i3", "i4">>,
                        Opt(p.fooref, <<RelD(0, "R32S", 0, s_ex_table, 0)>>)),
                TextSec(s_bar, <<IF patched /\ p.barChg THEN "c1" ELSE "b1", "b2", "b3", "b4">>,
                        <<>>)>>
              \o Opt(patched, <<TextSec(s_baz, <<"k1", "k2", "k3", "k4">>, <<>>)>>)
              \o <<SecD(s_ex_table, "PROGBITS", {"ALLOC"},
                        <<"e1", "e2", "e3", "e4", "e5", "e6", "e7", "e8">>, 8,
                        <<RelD(0, "PC32", 0, p.owner, 4)>>),
                   SecD(s_debug_info, "PROGBITS", {}, <<"d1", "d2">>, 1,
                        DebugRelas(IF patched THEN p.refs
                                   ELSE p.refs \ {3}, 1, 0)),
                   SecD(s_debug_str, "PROGBITS", {"MERGE", "STRINGS"}, <<"s", NUL>>, 1, <<>>),
                   SecD(s_shstrtab, "STRTAB", {}, <<"t">>, 1, <<>>),
                   SecD(s_symtab, "SYMTAB", {}, <<"t">>, 8, <<>>),
                   SecD(s_strtab, "STRTAB", {}, <<"t">>, 1, <<>>)>>,
     syms |-> <<FileSymD,
                SecSymD(Cat(p_text, s_foo)), SecSymD(Cat(p_text, s_bar))>>
              \o Opt(patched, <<SecSymD(Cat(p_text, s_baz))>>)
              \o <<SecSymD(s_ex_table), SecSymD(s_debug_info), SecSymD(s_debug_str),
                   SymD(s_foo, "FUNC", "GLOBAL", 4, Cat(p_text, s_foo)),
                   SymD(s_bar, "FUNC", "GLOBAL", 4, Cat(p_text, s_bar))>>
              \o Opt(patched, <<SymD(s_baz, "FUNC", "GLOBAL", 4, Cat(p_text, s_baz))>>)
              \o <<UndefSymD(s_ext)>>]

DebugScenarios ==
    [fooChg : BOOLEAN, barChg : BOOLEAN, fooref : BOOLEAN, owner : {s_foo, s_bar},
     refs : DebugSubsets]

InitDebug ==
    \E p \in DebugScenarios :
        LET w == Worlds(DebugObject(p, FALSE), DebugObject(p, TRUE), "ok")
        IN /\ pc = "headers"
           /\ k = w
           /\ rc = -1
           /\ written = 0
           /\ hist = History(p, w, FALSE)
           /\ ms = <<>>

SpecDebug == InitDebug /\ [][Next]_vars

Written == pc = "done" /\ rc = 0 /\ written = 1

\* the debug sections and debug relocation sections of the patched unit, as
\* the patchability check found them
DebugSecs == {s \in DOMAIN hist.verified : is_debug_section(hist.verified, s)}

InOutput(s) == s \in Range(k.osecs)

\* C26: on a run that writes an output every .debug_* and .rela.debug_*
\* section of the patched unit is in the output, and every relocation of a
\* .rela.debug_* section of the output targets a symbol that has a section,
\* and that section is in the output
C26_DebugSections ==
    Written =>
        \A s \in DebugSecs :
            /\ InOutput(s)
            /\ is_rela_section(k.secs[s]) =>
                  \A i \in 1..Len(k.secs[s].relas) :
                      LET y == k.syms[k.secs[s].relas[i].sym]
                      IN y.sec # NULL /\ InOutput(y.sec)

\* every debug section is in the output of every run that writes one
C26_DebugIncluded == Written => \A s \in DebugSecs : InOutput(s)

\* the relocations the debug pass left target sections that were included
\* when it ran
C26_PrunedAtDebugPass ==
    pc = "hooks" =>
        \A s \in Range(k.psecs) :
            (is_rela_section(k.secs[s]) /\ is_debug_section(k.secs, s)) =>
                \A i \in 1..Len(k.secs[s].relas) :
                    LET y == k.syms[k.secs[s].relas[i].sym]
                    IN y.sec # NULL /\ k.secs[y.sec].include

\* an output with debug relocations left, to foo and to .debug_str, while the
\* relocation to the new function baz is gone
C26_WitnessPruned ==
    /\ Written
    /\ \E s \in DebugSecs :
          /\ is_rela_section(k.secs[s])
          /\ Len(k.secs[s].relas) = 2
          /\ 3 \in hist.scen.refs

\* the relocations of the debug sections of the output target sections of the
\* output on every run in which no function references a special section
C26_NoSpecialReference ==
    (Written /\ ~hist.scen.fooref) =>
        \A s \in DebugSecs :
            is_rela_section(k.secs[s]) =>
                \A i \in 1..Len(k.secs[s].relas) :
                    LET y == k.syms[k.secs[s].relas[i].sym]
                    IN y.sec # NULL /\ InOutput(y.sec)

====
